---- MODULE Spec2Model ----
(***************************************************************************)
(* Logic-Circuit-Simulator: the node / wire graph (components/Node.ts),    *)
(* the delivery of values along wires through the Timeline, and the path   *)
(* that takes a press or release on a node to the wire manager             *)
(* (CursorMovementManager, EditHandlers).                                  *)
(***************************************************************************)
EXTENDS Integers, Sequences, FiniteSets, TLC

\* ------------------------------------------------------------ LogicValue
False == "0"
True == "1"
Unknown == "?"
HighImpedance == "Z"
LogicValues == {False, True, Unknown, HighImpedance}

\* undefined / null of the source
None == "undefined"
\* null where a Wire is expected
NoWire == 0

isDefined(v) == v # None
isNull(v) == v = None
isUnknown(v) == v = Unknown

\* ------------------------------------------------------------------ Mode
ModeOrder == <<"STATIC", "TRYOUT", "CONNECT", "DESIGN", "FULL">>
ModeRank(m) == CHOOSE k \in 1..Len(ModeOrder) : ModeOrder[k] = m
\* mode >= Mode.X
ModeAtLeast(m, x) == ModeRank(m) >= ModeRank(x)

\* ----------------------------------------------------------------- nodes
OutNodes == {"o1", "o2"}
InNodes == {"i1", "i2"}
Nodes == OutNodes \cup InNodes

\* Node.isOutput
isOutput(n) == n \in OutNodes

\* ---------------------------------------------------------------- bounds
\* wires ever created in one behaviour
MaxWires == 2
\* Timeline events pending at any time
MaxQueue == 2

\* nodes of the node registry ever constructed in one behaviour
MaxNodes == 6
\* the same while ids are reassigned, and the largest id given by hand
MaxIdNodes == 3
MaxId == 3

\* the last instant (in hundredths of a millisecond) the Timeline is
\* advanced to where clocks tick
MaxTime == 250

\* the last millisecond the Timeline is advanced to where clock values are
\* computed for all times
MaxMs == 8

\* bits a shift buffer holds at most
MaxBits == 3

\* data inputs of an 8-input multiplexer that are not false at a time
MaxDriven == 1

\* presses (mouse-down or touch-start) in one behaviour
MaxPresses == 2

\* instants the driving loop advances the Timeline to, and wire delays
Times == {0, 100, 104, 105}
Delays == {0, 5}

VARIABLES
    mode,            \* editor.mode
    _value,          \* NodeBase._value, per node
    _forceValue,     \* NodeBase._forceValue, per node (None = undefined)
    _incomingWire,   \* NodeIn._incomingWire, per input node (NoWire = null)
    _outgoingWires,  \* NodeOut._outgoingWires, per output node
    wires,           \* every Wire constructed so far: its end points and delay
    now,             \* the Timeline's logical time
    queue,           \* the Timeline's pending events, in execution order
    mouseOver,       \* CursorMovementManager._currentMouseOverComp
    mouseDownData,   \* CursorMovementManager._currentMouseDownData
    wireFrom,        \* the wire manager's node a wire is being added from
    lastWritten,     \* history: the last value written to each output node
    replaced,        \* history: the wires severed by a reconnection
    last,            \* history: the operation of the last step
    handed,          \* history: the node given to wireMgr.addNode, last step
    calls,           \* history: Wire.propageNewValue calls of the last step
    recalcs,         \* history: parent.setNeedsRecalc calls of the last step
    changes,         \* history: visible-value changes of input nodes, last step
    constructed,     \* registry: Node objects 1..constructed have been constructed
    _id,             \* Node._id, per Node object
    _isAlive,        \* Node._isAlive, per Node object
    nodeList,        \* nodeList, per slot (NoNode = empty slot)
    nextNodeID,      \* nextNodeID
    destroyed,       \* history: the Node objects destroy() was called on
    _period,         \* Clock._period, per clock (ms)
    _dutycycle,      \* Clock._dutycycle, per clock (percent)
    _phase,          \* Clock._phase, per clock (ms)
    clockValue,      \* the value of the clock component (doSetValue)
    state,           \* the ComponentState of each clock
    nextSeq,         \* history: events scheduled so far plus one
    ran,             \* history: events executed by the last advanceTo, in order
    ranBefore,       \* history: the last event executed by earlier advanceTo calls
    ticks,           \* history: the last two tickCallback calls of each clock
    sbInputs,        \* ShiftBufferOut: the values of its input nodes
    sbValue,         \* ShiftBufferOut: its value (incoming bits, decoded groups)
    _decodeAs,       \* ShiftBufferOut._decodeAs
    _groupEvery,     \* ShiftBufferOut._groupEvery (NoNumber = undefined)
    _maxItems,       \* ShiftBufferOut._maxItems (NoNumber = undefined)
    _trigger,        \* ShiftBufferOut._trigger
    _lastClock,      \* ShiftBufferOut._lastClock
    sbOriginal,      \* history: the shift buffer that was saved, after a reload
    qtInputs,        \* QuadTriState: the values of its input nodes 0..4
    qtValue,         \* QuadTriState: its value
    qtOutputs,       \* QuadTriState: the values of its output nodes 0..3
    muxKind,         \* the Mux subclass of the multiplexer
    muxInputs,       \* Mux: the values of its input nodes
    muxValue,        \* Mux: its value
    muxOutputs,      \* Mux: the values of its output nodes
    ibValue,         \* InputByte: its value
    ibSaved,         \* history: the val loaded and the value saved, last step
    _showLabel,      \* Clock._showLabel, per clock
    clockSaved,      \* history: the saved data each clock was constructed from
    bcdInputs,       \* DecoderBCD4: the values of its input nodes 0..3
    bcdValue,        \* DecoderBCD4: its value
    bcdOutputs,      \* DecoderBCD4: the values of its output nodes 0..4
    _currentMouseOverComp,      \* CursorMovementManager, for drawables
    _currentMouseOverPopper,    \* the drawable the popper is shown for
    _currentMouseDownData,      \* (NoData = null)
    _startHoverTimeoutHandle,   \* (NoHandle = null)
    _startDragTimeoutHandle,    \* (NoHandle = null)
    hoverTimeouts,   \* the browser's pending hover timeouts
    dragTimeouts,    \* the browser's pending start-drag timeouts
    selectionDefined,            \* currentSelection is not undefined
    previouslySelectedElements,  \* EditorSelection.previouslySelectedElements
    currentlyDrawnRect,          \* EditorSelection.currentlyDrawnRect
    compState,       \* the ComponentState of each drawable
    pressSeq,        \* history: the presses so far
    handlerCalls,    \* history: the handler calls of the last step, in order
    pressHist,       \* history: the presses dragged, clicked and ended
    _movingDrawables,  \* MoveManager._movingDrawables
    moveNotified,    \* history: notifications of the editor, last call
    lastMove         \* history: the last MoveManager call for each drawable

vars == <<mode, _value, _forceValue, _incomingWire, _outgoingWires, wires, now,
          queue, mouseOver, mouseDownData, wireFrom, lastWritten, replaced,
          last, handed, calls, recalcs, changes,
          constructed, _id, _isAlive, nodeList, nextNodeID, destroyed,
          _period, _dutycycle, _phase, clockValue, state, nextSeq, ran,
          ranBefore, ticks,
          sbInputs, sbValue, _decodeAs, _groupEvery, _maxItems, _trigger,
          _lastClock, sbOriginal, qtInputs, qtValue, qtOutputs, muxKind,
          muxInputs, muxValue, muxOutputs, ibValue, ibSaved, _showLabel,
          clockSaved, bcdInputs, bcdValue, bcdOutputs,
          _currentMouseOverComp, _currentMouseOverPopper,
          _currentMouseDownData, _startHoverTimeoutHandle,
          _startDragTimeoutHandle, hoverTimeouts, dragTimeouts,
          selectionDefined, previouslySelectedElements, currentlyDrawnRect,
          compState, pressSeq, handlerCalls, pressHist,
          _movingDrawables, moveNotified, lastMove>>

\* the node registry and the clocks
regVars == <<constructed, _id, _isAlive, nodeList, nextNodeID, destroyed>>
clockVars == <<_period, _dutycycle, _phase, _showLabel, clockSaved,
               clockValue, state, nextSeq, ran, ranBefore, ticks>>

\* the components
shiftVars == <<sbInputs, sbValue, _decodeAs, _groupEvery, _maxItems, _trigger,
               _lastClock, sbOriginal>>
quadVars == <<qtInputs, qtValue, qtOutputs>>
muxVars == <<muxKind, muxInputs, muxValue, muxOutputs>>
byteVars == <<ibValue, ibSaved>>
bcdVars == <<bcdInputs, bcdValue, bcdOutputs>>
\* the cursor movement manager for drawables, and the move manager
cursorVars == <<_currentMouseOverComp, _currentMouseOverPopper,
                _currentMouseDownData, _startHoverTimeoutHandle,
                _startDragTimeoutHandle, hoverTimeouts, dragTimeouts,
                selectionDefined, previouslySelectedElements,
                currentlyDrawnRect, compState, pressSeq, handlerCalls,
                pressHist>>
moveVars == <<_movingDrawables, moveNotified, lastMove>>
compVars == <<shiftVars, quadVars, muxVars, byteVars, bcdVars, cursorVars,
              moveVars>>

editVars == <<mode, mouseOver, mouseDownData, wireFrom>>

WireIds == 1..Len(wires)
startNode(w) == wires[w].startNode
endNode(w) == wires[w].endNode

ZeroCount == [i \in InNodes |-> 0]

\* --------------------------------------------------------- NodeBase.value
\* get value(): the forced value if defined, else _value
value(v, f, n) == IF isDefined(f[n]) THEN f[n] ELSE v[n]

\* the visible value of node n in the current state
Visible(n) == value(_value, _forceValue, n)

\* The part of the state a setter call works on:
\*   v   _value of every node        q   the Timeline's queue
\*   rc  setNeedsRecalc calls        pc  propageNewValue calls
Work == [v |-> _value, q |-> queue, rc |-> ZeroCount, pc |-> <<>>, ch |-> ZeroCount]

\* the setter without its two tests: every write marks the parent
NodeIn_setValue_always(S, f, i, val) ==
    [S EXCEPT !.v[i] = val, !.rc[i] = @ + 1]

\* NodeIn: set value(val) with propagateNewValueIfNecessary and
\* propagateNewValue (parent.setNeedsRecalc())
NodeIn_setValue(S, f, i, val) ==
    LET oldVisibleValue == value(S.v, f, i) IN
    IF val # S.v[i]
    THEN LET v1 == [S.v EXCEPT ![i] = val]
             newVisibleValue == value(v1, f, i)
         IN IF newVisibleValue # oldVisibleValue
            THEN [S EXCEPT !.v = v1, !.rc[i] = @ + 1]
            ELSE [S EXCEPT !.v = v1]
    ELSE S

\* a write to an input node, with the history of visible-value changes
WriteIn(S, f, i, val) ==
    LET S1 == NodeIn_setValue(S, f, i, val) IN
    IF value(S1.v, f, i) # value(S.v, f, i) THEN [S1 EXCEPT !.ch[i] = @ + 1] ELSE S1

\* ------------------------------------------------------------- Timeline
\* Timeline.adjustedTime()
adjustedTime == now

\* scheduleAt putting the event before the pending events of the same time
scheduleAt_front(q, e) ==
    LET isEarlier(x) == x.time < e.time
        isNotEarlier(x) == x.time >= e.time
    IN SelectSeq(q, isEarlier) \o <<e>> \o SelectSeq(q, isNotEarlier)

\* Timeline.scheduleAt: the event goes behind every pending event that is
\* not later than it (scheduled-time order, insertion order among equals)
scheduleAt(q, e) ==
    LET before == SelectSeq(q, LAMBDA x : x.time <= e.time)
        after == SelectSeq(q, LAMBDA x : x.time > e.time)
    IN before \o <<e>> \o after

\* ----------------------------------------------------------------- Wire
\* Wire.isAlive, as far as the end node is concerned
isAlive(w) == _incomingWire[endNode(w)] = w

\* the wire hands newValue to its end node, if it is still that node's wire
deliver(S, f, w, newValue) ==
    IF isAlive(w) THEN WriteIn(S, f, endNode(w), newValue) ELSE S

\* Wire.propageNewValue(newValue, now): delivery at now + delay, in the
\* same pass when the delay is zero and by a Timeline event otherwise
Wire_propageNewValue(S, f, w, newValue, t) ==
    LET S1 == [S EXCEPT !.pc = Append(@, [wire |-> w, value |-> newValue, ts |-> t])] IN
    IF wires[w].delay = 0
    THEN deliver(S1, f, w, newValue)
    ELSE [S1 EXCEPT !.q = scheduleAt(@, [time |-> t + wires[w].delay, wire |-> w,
                                          value |-> newValue])]

\* -------------------------------------------------------------- NodeOut
RECURSIVE forEachWire(_, _, _, _, _)
forEachWire(S, f, ws, newValue, t) ==
    IF ws = <<>> THEN S
    ELSE forEachWire(Wire_propageNewValue(S, f, Head(ws), newValue, t), f,
                     Tail(ws), newValue, t)

\* propagateNewValue that misses the first outgoing wire
NodeOut_propagateNewValue_skipFirst(S, f, o, newValue) ==
    LET t == adjustedTime IN
    IF _outgoingWires[o] = <<>> THEN S
    ELSE forEachWire(S, f, Tail(_outgoingWires[o]), newValue, t)

\* NodeOut.propagateNewValue
NodeOut_propagateNewValue(S, f, o, newValue) ==
    LET t == adjustedTime IN forEachWire(S, f, _outgoingWires[o], newValue, t)

\* propagateNewValueIfNecessary without its test: the visible value is
\* propagated whether it changed or not
NodeOut_propagateNewValueIfNecessary_always(S, f, o, oldVisibleValue) ==
    NodeOut_propagateNewValue(S, f, o, value(S.v, f, o))

\* NodeBase.propagateNewValueIfNecessary, on an output node
NodeOut_propagateNewValueIfNecessary(S, f, o, oldVisibleValue) ==
    LET newVisibleValue == value(S.v, f, o) IN
    IF newVisibleValue # oldVisibleValue
    THEN NodeOut_propagateNewValue(S, f, o, newVisibleValue)
    ELSE S

\* the setter comparing val with the visible value instead of _value
NodeOut_setValue_visible(S, f, o, val) ==
    LET oldVisibleValue == value(S.v, f, o) IN
    IF val # oldVisibleValue
    THEN NodeOut_propagateNewValueIfNecessary([S EXCEPT !.v[o] = val], f, o,
                                              oldVisibleValue)
    ELSE S

\* NodeBase: set value(val), on an output node
NodeOut_setValue(S, f, o, val) ==
    LET oldVisibleValue == value(S.v, f, o) IN
    IF val # S.v[o]
    THEN NodeOut_propagateNewValueIfNecessary([S EXCEPT !.v[o] = val], f, o,
                                              oldVisibleValue)
    ELSE S

\* the forced-value setter without propagateNewValueIfNecessary
NodeOut_setForceValue_silent(S, f, f1, o) == S

\* NodeOut: set forceValue(newForceValue); f1 is _forceValue after the
\* assignment
NodeOut_setForceValue(S, f, f1, o) ==
    LET oldVisibleValue == value(S.v, f, o) IN
    NodeOut_propagateNewValueIfNecessary(S, f1, o, oldVisibleValue)

\* NodeOut.addOutgoingWire
addOutgoingWire(out, o, w) == [out EXCEPT ![o] = Append(@, w)]

\* removeOutgoingWire that leaves the list as it is
removeOutgoingWire_none(out, o, w) == out

\* NodeOut.removeOutgoingWire: splice at indexOf(wire)
removeOutgoingWire(out, o, w) ==
    [out EXCEPT ![o] = SelectSeq(@, LAMBDA x : x # w)]

\* --------------------------------------------------------------- NodeIn
\* the setter reading the start node's _value instead of its visible value
NodeIn_setIncomingWire_raw(S, f, i, wire, start) ==
    IF wire = NoWire
    THEN WriteIn(S, f, i, False)
    ELSE WriteIn(S, f, i, S.v[start])

\* the setter that writes no value when a wire is attached
NodeIn_setIncomingWire_late(S, f, i, wire, start) ==
    IF wire = NoWire THEN WriteIn(S, f, i, False) ELSE S

\* NodeIn: set incomingWire(wire), the write of the value; start is
\* wire.startNode when wire is not null
NodeIn_setIncomingWire(S, f, i, wire, start) ==
    IF wire = NoWire
    THEN WriteIn(S, f, i, False)
    ELSE WriteIn(S, f, i, value(S.v, f, start))

\* acceptsMoreConnections that is true of every node
acceptsMoreConnections_always(inc, n) == TRUE

\* NodeIn.acceptsMoreConnections / NodeOut.acceptsMoreConnections
acceptsMoreConnections(inc, n) ==
    IF isOutput(n) THEN TRUE ELSE inc[n] = NoWire

\* -------------------------------------------------------------- actions
Commit(S) ==
    /\ _value' = S.v
    /\ queue' = S.q
    /\ recalcs' = S.rc
    /\ calls' = S.pc
    /\ changes' = S.ch
    /\ UNCHANGED <<regVars, clockVars, compVars>>

Op(op, n, old, w) == [op |-> op, node |-> n, old |-> old, wire |-> w]
Hand(n, w) == [node |-> n, wire |-> w]
NoHand == Hand(None, NoWire)

\* a component writes its computed value to output node o
SetValue(o, val) ==
    LET S == NodeOut_setValue(Work, _forceValue, o, val) IN
    /\ Len(S.q) <= MaxQueue
    /\ Commit(S)
    /\ lastWritten' = [lastWritten EXCEPT ![o] = val]
    /\ last' = Op("setValue", o, Visible(o), NoWire)
    /\ UNCHANGED <<_forceValue, _incomingWire, _outgoingWires, wires, now, replaced>>
    /\ handed' = NoHand
    /\ UNCHANGED editVars

\* the forced value of output node o is set (a LogicValue) or cleared (None)
SetForce(o, newForceValue) ==
    LET f1 == [_forceValue EXCEPT ![o] = newForceValue]
        S == NodeOut_setForceValue(Work, _forceValue, f1, o)
    IN
    /\ Len(S.q) <= MaxQueue
    /\ _forceValue' = f1
    /\ Commit(S)
    /\ last' = Op("setForce", o, Visible(o), NoWire)
    /\ UNCHANGED <<_incomingWire, _outgoingWires, wires, now, replaced, lastWritten>>
    /\ handed' = NoHand
    /\ UNCHANGED editVars

\* connect(outputNode, inputNode): refused when the input node has a wire
\* and no replacement is asked for; a replacement severs the previous wire
connect(o, i, d, replace) ==
    LET p == _incomingWire[i] IN
    IF p # NoWire /\ ~replace
    THEN /\ last' = Op("connectRejected", i, Visible(i), p)
         /\ calls' = <<>> /\ recalcs' = ZeroCount /\ changes' = ZeroCount
         /\ UNCHANGED <<_value, _forceValue, _incomingWire, _outgoingWires, wires,
                        now, queue, replaced, lastWritten>>
         /\ UNCHANGED <<regVars, clockVars, compVars>>
    ELSE LET w == Len(wires) + 1
             out1 == IF p # NoWire
                     THEN removeOutgoingWire(_outgoingWires, startNode(p), p)
                     ELSE _outgoingWires
             S1 == IF p # NoWire
                   THEN NodeIn_setIncomingWire(Work, _forceValue, i, NoWire, None)
                   ELSE Work
             S2 == NodeIn_setIncomingWire(S1, _forceValue, i, w, o)
         IN
         /\ Len(wires) < MaxWires
         /\ wires' = Append(wires, [startNode |-> o, endNode |-> i, delay |-> d])
         /\ _outgoingWires' = addOutgoingWire(out1, o, w)
         /\ _incomingWire' = [_incomingWire EXCEPT ![i] = w]
         /\ Commit(S2)
         /\ replaced' = IF p # NoWire THEN replaced \cup {p} ELSE replaced
         /\ last' = Op("connect", i, Visible(i), p)
         /\ UNCHANGED <<_forceValue, now, lastWritten>>

Connect(o, i, d, replace) ==
    /\ connect(o, i, d, replace)
    /\ handed' = NoHand
    /\ UNCHANGED editVars

\* disconnect(wire): Wire.destroy
Disconnect(w) ==
    LET i == endNode(w)
        S == NodeIn_setIncomingWire(Work, _forceValue, i, NoWire, None)
    IN
    /\ isAlive(w)
    /\ _outgoingWires' = removeOutgoingWire(_outgoingWires, startNode(w), w)
    /\ _incomingWire' = [_incomingWire EXCEPT ![i] = NoWire]
    /\ Commit(S)
    /\ last' = Op("disconnect", i, Visible(i), w)
    /\ UNCHANGED <<_forceValue, wires, now, replaced, lastWritten>>
    /\ handed' = NoHand
    /\ UNCHANGED editVars

\* Timeline.advanceTo(t): every pending event not later than t is executed,
\* in queue order
RECURSIVE runEvents(_, _, _)
runEvents(S, f, t) ==
    IF S.q # <<>> /\ Head(S.q).time <= t
    THEN LET e == Head(S.q) IN
         runEvents(deliver([S EXCEPT !.q = Tail(@)], f, e.wire, e.value), f, t)
    ELSE S

AdvanceTo(t) ==
    /\ t > now
    /\ now' = t
    /\ Commit(runEvents(Work, _forceValue, t))
    /\ last' = Op("advanceTo", None, None, NoWire)
    /\ UNCHANGED <<_forceValue, _incomingWire, _outgoingWires, wires, replaced,
                   lastWritten>>
    /\ handed' = NoHand
    /\ UNCHANGED editVars

\* ------------------------------------------------- node registry (Node)
\* the Node objects, the slots of nodeList, and an empty slot
NodeObjs == 1..MaxNodes
Slots == 0..(MaxId + MaxNodes)
NoNode == 0
NoId == -1

graphVars == <<_value, _forceValue, _incomingWire, _outgoingWires, wires, now,
               queue, lastWritten, replaced, handed, calls, recalcs, changes>>

\* delete nodeList[id]
deleteSlot(list, id) == [list EXCEPT ![id] = NoNode]

\* new Node(...): _id = nextNodeID++ and nodeList[this._id] = this; at most
\* max nodes are constructed
NewNode(max) ==
    LET n == constructed + 1 IN
    /\ constructed < max
    /\ constructed' = n
    /\ _id' = [_id EXCEPT ![n] = nextNodeID]
    /\ nextNodeID' = nextNodeID + 1
    /\ _isAlive' = [_isAlive EXCEPT ![n] = TRUE]
    /\ nodeList' = [nodeList EXCEPT ![nextNodeID] = n]
    /\ last' = Op("newNode", None, None, NoWire)
    /\ UNCHANGED <<destroyed, graphVars, editVars, clockVars, compVars>>

\* destroy() that leaves the node in nodeList
Node_destroy_keep(list, ids, n) == list

\* Node.destroy(), the registry: delete nodeList[this._id]
Node_destroy(list, ids, n) == deleteSlot(list, ids[n])

\* Node.destroy() on a constructed node
DestroyNode(n) ==
    /\ n <= constructed
    /\ _isAlive' = [_isAlive EXCEPT ![n] = FALSE]
    /\ nodeList' = Node_destroy(nodeList, _id, n)
    /\ destroyed' = destroyed \cup {n}
    /\ last' = Op("destroy", None, None, NoWire)
    /\ UNCHANGED <<constructed, _id, nextNodeID, graphVars, editVars, clockVars, compVars>>

\* Node: set id(newID), the registry
Node_setId(list, ids, n, newID) ==
    LET list1 == IF list[ids[n]] = n THEN deleteSlot(list, ids[n]) ELSE list
    IN [list1 EXCEPT ![newID] = n]

\* Node: set id(newID) on a live node
SetId(n, newID) ==
    /\ n <= constructed
    /\ _isAlive[n]
    /\ nodeList' = Node_setId(nodeList, _id, n, newID)
    /\ _id' = [_id EXCEPT ![n] = newID]
    /\ nextNodeID' = IF newID >= nextNodeID THEN newID + 1 ELSE nextNodeID
    /\ last' = Op("setId", None, None, NoWire)
    /\ UNCHANGED <<constructed, _isAlive, destroyed, graphVars, editVars, clockVars, compVars>>

\* ---------------------------------------------------------------- Clock
\* In the specifications with clocks the Timeline's times (now, the times of
\* events, theoretical times) are counted in hundredths of a millisecond,
\* so that period * dutycycle / 100 is computed exactly; periods and phases
\* are in milliseconds as in the code.
Clocks == {"c1", "c2"}
ClockDefaults ==
    [period |-> 2000, dutycycle |-> 50, phase |-> 0, showLabel |-> TRUE]
\* history: no clock was constructed
NoClockSaved == [period |-> 0, dutycycle |-> <<>>, phase |-> <<>>, showLabel |-> <<>>]
Hundredths == 100

\* the % of the code: the sign of the result is the sign of the dividend
jsRem(a, b) == IF a >= 0 THEN a % b ELSE -((-a) % b)

\* currentClockValue with <= for <
currentClockValue_le(time, period, dutycycle, phase) ==
    LET myTime == time - Hundredths * phase
        r == jsRem(myTime, Hundredths * period)
        timeOverPeriod == IF r < 0 THEN r + Hundredths * period ELSE r
        onDuration == period * dutycycle
        offDuration == Hundredths * period - onDuration
        val == timeOverPeriod <= onDuration
        timeOverLastTick == IF val THEN timeOverPeriod
                                   ELSE timeOverPeriod - onDuration
        lastTick == time - timeOverLastTick
    IN [value |-> IF val THEN True ELSE False,
        nextTick |-> lastTick + (IF val THEN onDuration ELSE offDuration)]

\* Clock.currentClockValue(time): [value, nextTick]
currentClockValue(time, period, dutycycle, phase) ==
    LET myTime == time - Hundredths * phase
        r == jsRem(myTime, Hundredths * period)
        timeOverPeriod == IF r < 0 THEN r + Hundredths * period ELSE r
        onDuration == period * dutycycle
        offDuration == Hundredths * period - onDuration
        val == timeOverPeriod < onDuration
        timeOverLastTick == IF val THEN timeOverPeriod
                                   ELSE timeOverPeriod - onDuration
        lastTick == time - timeOverLastTick
    IN [value |-> IF val THEN True ELSE False,
        nextTick |-> lastTick + (IF val THEN onDuration ELSE offDuration)]

\* The part of the state a tick callback works on:
\*   q    the Timeline's queue      val  the clocks' values
\*   seq  the next event's number   tk   the history of tick callbacks
\*   ran  the events executed by the advanceTo in progress
ClockWork == [q |-> queue, val |-> clockValue, seq |-> nextSeq, tk |-> ticks,
              ran |-> <<>>]

\* the record of a tick callback, and the last two of them
Tick(theoreticalTime, r, at) ==
    [time |-> theoreticalTime, value |-> r.value, nextTick |-> r.nextTick, at |-> at]
lastTwo(tk, k) == IF Len(tk) = 2 THEN <<tk[2], k>> ELSE Append(tk, k)

\* doSetValue(value) of the clock component
doSetValue(K, c, v) == [K EXCEPT !.val[c] = v]

\* the tick callback computing from the time at which it runs
tickCallback_actual(K, c, period, dutycycle, phase, st, theoreticalTime, at) ==
    LET r == currentClockValue(at, period, dutycycle, phase)
        K1 == [doSetValue(K, c, r.value) EXCEPT
                  !.tk[c] = lastTwo(@, Tick(theoreticalTime, r, at))]
    IN IF st # "DEAD"
       THEN [K1 EXCEPT !.q = scheduleAt(@, [time |-> r.nextTick, clock |-> c,
                                            seq |-> K1.seq]),
                       !.seq = @ + 1]
       ELSE K1

\* Clock.tickCallback(theoreticalTime) of clock c with the given fields and
\* state, run when the Timeline's time is at
tickCallback(K, c, period, dutycycle, phase, st, theoreticalTime, at) ==
    LET r == currentClockValue(theoreticalTime, period, dutycycle, phase)
        K1 == [doSetValue(K, c, r.value) EXCEPT
                  !.tk[c] = lastTwo(@, Tick(theoreticalTime, r, at))]
    IN IF st # "DEAD"
       THEN [K1 EXCEPT !.q = scheduleAt(@, [time |-> r.nextTick, clock |-> c,
                                            seq |-> K1.seq]),
                       !.seq = @ + 1]
       ELSE K1

ClockCommit(K) ==
    /\ queue' = K.q
    /\ clockValue' = K.val
    /\ nextSeq' = K.seq
    /\ ticks' = K.tk

nodeVars == <<_value, _forceValue, _incomingWire, _outgoingWires, wires,
              lastWritten, replaced, handed, calls, recalcs, changes>>

\* new Clock(savedData) with period, dutycycle and phase saved
NewClock(c, period, dutycycle, phase) ==
    LET d == jsRem(dutycycle, 100)
        ph == jsRem(phase, period)
    IN
    /\ state[c] = "NONE"
    /\ _period' = [_period EXCEPT ![c] = period]
    /\ _dutycycle' = [_dutycycle EXCEPT ![c] = d]
    /\ _phase' = [_phase EXCEPT ![c] = ph]
    /\ _showLabel' = [_showLabel EXCEPT ![c] = ClockDefaults.showLabel]
    /\ clockSaved' = [clockSaved EXCEPT ![c] =
                         [period |-> period, dutycycle |-> <<dutycycle>>,
                          phase |-> <<phase>>, showLabel |-> <<>>]]
    /\ state' = [state EXCEPT ![c] = "SPAWNED"]
    /\ ClockCommit(tickCallback(ClockWork, c, period, d, ph, "SPAWNED",
                                adjustedTime, now))
    /\ last' = Op("newClock", c, None, NoWire)
    /\ UNCHANGED <<now, ran, ranBefore, nodeVars, editVars, regVars, compVars>>

\* the clock component is destroyed: its state becomes DEAD; its pending
\* event stays in the Timeline
DestroyClock(c) ==
    /\ state[c] = "SPAWNED"
    /\ state' = [state EXCEPT ![c] = "DEAD"]
    /\ last' = Op("destroyClock", c, None, NoWire)
    /\ UNCHANGED <<_period, _dutycycle, _phase, _showLabel, clockSaved, clockValue, nextSeq, ran,
                   ranBefore, ticks, now, queue, nodeVars, editVars, regVars, compVars>>

\* doSetPeriod that schedules a tick for the new period
doSetPeriod_rearm(K, c, period) ==
    [K EXCEPT !.q = scheduleAt(@, [time |-> now + Hundredths * period,
                                   clock |-> c, seq |-> K.seq]),
              !.seq = @ + 1, !.tk[c] = <<>>]

\* Clock.doSetPeriod(period), the Timeline (the history of ticks starts
\* again)
doSetPeriod(K, c, period) == [K EXCEPT !.tk[c] = <<>>]

\* Clock.doSetPeriod(period) from the context menu
DoSetPeriod(c, period) ==
    /\ state[c] = "SPAWNED"
    /\ _period' = [_period EXCEPT ![c] = period]
    /\ ClockCommit(doSetPeriod(ClockWork, c, period))
    /\ last' = Op("doSetPeriod", c, None, NoWire)
    /\ UNCHANGED <<_dutycycle, _phase, _showLabel, clockSaved, state, ran, ranBefore, now, nodeVars,
                   editVars, regVars, compVars>>

\* Clock.doRecalcValue(): returns this.value
doRecalcValue(K, c) == K

\* a recompute of the clock component
DoRecalcValue(c) ==
    /\ state[c] = "SPAWNED"
    /\ ClockCommit(doRecalcValue(ClockWork, c))
    /\ last' = Op("doRecalcValue", c, clockValue[c], NoWire)
    /\ UNCHANGED <<_period, _dutycycle, _phase, _showLabel, clockSaved, state, ran, ranBefore, now,
                   nodeVars, editVars, regVars, compVars>>

\* the callback of event e
runEvent(K, e, t) ==
    [tickCallback(K, e.clock, _period[e.clock], _dutycycle[e.clock],
                  _phase[e.clock], state[e.clock], e.time, t)
       EXCEPT !.ran = Append(@, e)]

\* advanceTo that goes on with the events scheduled by the callbacks
RECURSIVE Timeline_advanceTo_eager(_, _)
Timeline_advanceTo_eager(K, t) ==
    IF K.q # <<>> /\ Head(K.q).time <= t
    THEN Timeline_advanceTo_eager(runEvent([K EXCEPT !.q = Tail(@)], Head(K.q), t), t)
    ELSE K

\* the events pending when advanceTo(t) is called that are not later than
\* t are executed in queue order; events scheduled meanwhile wait
RECURSIVE runDue(_, _, _)
runDue(K, due, t) ==
    IF due = <<>> THEN K ELSE runDue(runEvent(K, Head(due), t), Tail(due), t)

\* Timeline.advanceTo(t) with tick callbacks pending
Timeline_advanceTo(K, t) ==
    LET isDue(e) == e.time <= t
        isLater(e) == e.time > t
    IN runDue([K EXCEPT !.q = SelectSeq(K.q, isLater)], SelectSeq(K.q, isDue), t)

NoEvent == [time |-> -1, clock |-> None, seq |-> 0]

\* the driving loop calls advanceTo(t)
ClockAdvanceTo(t) ==
    LET K == Timeline_advanceTo(ClockWork, t) IN
    /\ t > now
    /\ now' = t
    /\ ClockCommit(K)
    /\ ran' = K.ran
    /\ ranBefore' = IF ran # <<>> THEN ran[Len(ran)] ELSE ranBefore
    /\ last' = Op("advanceTo", None, None, NoWire)
    /\ UNCHANGED <<_period, _dutycycle, _phase, _showLabel, clockSaved, state, nodeVars, editVars, regVars, compVars>>

ClockInit ==
    /\ _period = [c \in Clocks |-> 0]
    /\ _dutycycle = [c \in Clocks |-> 0]
    /\ _phase = [c \in Clocks |-> 0]
    /\ _showLabel = [c \in Clocks |-> ClockDefaults.showLabel]
    /\ clockSaved = [c \in Clocks |-> NoClockSaved]
    /\ clockValue = [c \in Clocks |-> False]
    /\ state = [c \in Clocks |-> "NONE"]
    /\ nextSeq = 1
    /\ ran = <<>>
    /\ ranBefore = NoEvent
    /\ ticks = [c \in Clocks |-> <<>>]

\* ------------------------------------------------------- ShiftBufferOut
\* everything but the components and the history of the last step
baseVars == <<graphVars, editVars, regVars, clockVars>>
notShift == <<baseVars, quadVars, muxVars, byteVars, bcdVars,
    cursorVars, moveVars>>
notQuad == <<baseVars, shiftVars, muxVars, byteVars, bcdVars,
    cursorVars, moveVars>>
notMux == <<baseVars, shiftVars, quadVars, byteVars, bcdVars,
    cursorVars, moveVars>>
notByte == <<baseVars, shiftVars, quadVars, muxVars, bcdVars,
    cursorVars, moveVars>>
notBcd == <<baseVars, shiftVars, quadVars, muxVars, byteVars,
    cursorVars, moveVars>>
notCursor == <<baseVars, shiftVars, quadVars, muxVars, byteVars, bcdVars,
    moveVars>>
notMove == <<baseVars, shiftVars, quadVars, muxVars, byteVars, bcdVars,
    cursorVars>>

\* an absent number of the saved data, and an absent state
NoNumber == -1
NoState == <<None>>

\* TriState: true, false and Unset
Unset == Unknown
TriStates == {False, True, Unset}
isUnset(v) == v = Unset

\* const enum INPUT
INPUT == {"Clock", "Clear", "Data"}

\* EdgeTrigger
EdgeTrigger == {"rising", "falling"}

\* the decoders of ShiftBufferDecoders_ that are modelled
Decoders == {"raw", "octal"}
decodeWidth(d) == IF d = "raw" THEN 1 ELSE 3
maxDisplayWidth(d) == 16
\* decode: (v: number) => v.toString()
decode(d, v) == ToString(v)

ShiftBufferOutDefaults == [decodeAs |-> "raw", trigger |-> "rising"]

\* toTriStateRepr and toTriState: 1, 0 and "?" in the saved data
toTriStateRepr(b) ==
    CASE b = True -> "1" [] b = False -> "0" [] OTHER -> "?"
toTriState(t) ==
    CASE t = "1" -> True [] t = "0" -> False [] OTHER -> Unset

\* displayValuesFromArray(values, mostSignificantFirst)[1]: the number the
\* values are the binary digits of, NoNumber (Unknown) when a value is not
\* true or false
RECURSIVE binaryValue(_)
binaryValue(digits) ==
    IF digits = <<>> THEN 0
    ELSE 2 * binaryValue(SubSeq(digits, 1, Len(digits) - 1))
         + (IF digits[Len(digits)] = True THEN 1 ELSE 0)
reverse(seq) == [k \in 1..Len(seq) |-> seq[Len(seq) + 1 - k]]
displayValuesFromArray(values, mostSignificantFirst) ==
    IF \E k \in 1..Len(values) : values[k] \notin {False, True}
    THEN NoNumber
    ELSE binaryValue(IF mostSignificantFirst THEN values ELSE reverse(values))

\* Flipflop.isClockTrigger(trigger, prevClock, clock)
isClockTrigger(trigger, prevClock, clock) ==
    \/ trigger = "rising" /\ prevClock = False /\ clock = True
    \/ trigger = "falling" /\ prevClock = True /\ clock = False

EmptyState == [incoming |-> <<>>, decoded |-> <<>>]

\* allBitsOf({ incoming, decoded })
RECURSIVE groupBits(_)
groupBits(decoded) ==
    IF decoded = <<>> THEN <<>>
    ELSE Head(decoded).bits \o groupBits(Tail(decoded))
allBitsOf(v) == v.incoming \o groupBits(v.decoded)

\* valueByAddingNewBit that never drops the oldest groups
valueByAddingNewBit_noSplice(newBit, oldValue, decoder, maxItems) ==
    LET newIncoming == <<newBit>> \o oldValue.incoming IN
    IF Len(newIncoming) < decodeWidth(decoder)
    THEN [incoming |-> newIncoming, decoded |-> oldValue.decoded]
    ELSE LET valAsInt == displayValuesFromArray(newIncoming, TRUE)
             decoded == IF valAsInt = NoNumber THEN Unset
                        ELSE decode(decoder, valAsInt)
         IN [incoming |-> <<>>,
             decoded |-> <<[str |-> decoded, bits |-> newIncoming]>>
                         \o oldValue.decoded]

\* ShiftBufferOut.valueByAddingNewBit(newBit, oldValue, decoder, maxItems)
valueByAddingNewBit(newBit, oldValue, decoder, maxItems) ==
    LET newIncoming == <<newBit>> \o oldValue.incoming IN
    IF Len(newIncoming) < decodeWidth(decoder)
    THEN [incoming |-> newIncoming, decoded |-> oldValue.decoded]
    ELSE LET valAsInt == displayValuesFromArray(newIncoming, TRUE)
             decoded == IF valAsInt = NoNumber THEN Unset
                        ELSE decode(decoder, valAsInt)
             newDecoded == <<[str |-> decoded, bits |-> newIncoming]>>
                           \o oldValue.decoded
         IN [incoming |-> <<>>,
             decoded |-> IF Len(newDecoded) > maxItems
                         THEN SubSeq(newDecoded, 1, maxItems)
                         ELSE newDecoded]

\* this._maxItems ?? decoder.maxDisplayWidth
maxItemsOr(maxItems, decoder) ==
    IF maxItems = NoNumber THEN maxDisplayWidth(decoder) ELSE maxItems

\* A recompute returns the component's value and _lastClock after it, and
\* what it did (for the history).
\* doRecalcValue that looks at the clock before it looks at Clear
ShiftBufferOut_doRecalcValue_clockFirst(in, v, lastClock, trigger, decodeAs, maxItems) ==
    IF isClockTrigger(trigger, lastClock, in.Clock)
    THEN [value |-> valueByAddingNewBit(in.Data, v, decodeAs,
                                        maxItemsOr(maxItems, decodeAs)),
          lastClock |-> in.Clock, did |-> "shift"]
    ELSE IF in.Clear = True
    THEN [value |-> EmptyState, lastClock |-> in.Clock, did |-> "clear"]
    ELSE [value |-> v, lastClock |-> in.Clock, did |-> "hold"]

\* doRecalcValue that shifts whenever the clock is at the level the trigger
\* ends on
ShiftBufferOut_doRecalcValue_level(in, v, lastClock, trigger, decodeAs, maxItems) ==
    IF in.Clear = True
    THEN [value |-> EmptyState, lastClock |-> lastClock, did |-> "clear"]
    ELSE IF in.Clock = (IF trigger = "rising" THEN True ELSE False)
    THEN [value |-> valueByAddingNewBit(in.Data, v, decodeAs,
                                        maxItemsOr(maxItems, decodeAs)),
          lastClock |-> in.Clock, did |-> "shift"]
    ELSE [value |-> v, lastClock |-> in.Clock, did |-> "hold"]

\* ShiftBufferOut.doRecalcValue() with the input values in
ShiftBufferOut_doRecalcValue(in, v, lastClock, trigger, decodeAs, maxItems) ==
    IF in.Clear = True
    THEN [value |-> EmptyState, lastClock |-> lastClock, did |-> "clear"]
    ELSE LET prevClock == lastClock
             clock == in.Clock
         IN IF isClockTrigger(trigger, prevClock, clock)
            THEN [value |-> valueByAddingNewBit(in.Data, v, decodeAs,
                                                maxItemsOr(maxItems, decodeAs)),
                  lastClock |-> clock, did |-> "shift"]
            ELSE [value |-> v, lastClock |-> clock, did |-> "hold"]

\* ShiftBufferOut.redecodeAll(): the value made of all the bits again
RECURSIVE addBits(_, _, _, _)
addBits(bits, v, decoder, maxItems) ==
    IF bits = <<>> THEN v
    ELSE addBits(Tail(bits), valueByAddingNewBit(Head(bits), v, decoder, maxItems),
                 decoder, maxItems)
redecodeAll(v, decodeAs, maxItems) ==
    addBits(reverse(allBitsOf(v)), EmptyState, decodeAs,
            maxItemsOr(maxItems, decodeAs))

\* ShiftBufferOut.savedStateFrom(savedData)
ShiftBufferOut_savedStateFrom(savedData) ==
    IF savedData.state = NoState THEN EmptyState
    ELSE [incoming |-> [k \in 1..Len(savedData.state) |->
                           toTriState(savedData.state[k])],
          decoded |-> <<>>]

\* ShiftBufferOut.toJSON(), the fields of the component
ShiftBufferOut_toJSON(v, decodeAs, groupEvery, maxItems, trigger) ==
    [state |-> [k \in 1..Len(allBitsOf(v)) |-> toTriStateRepr(allBitsOf(v)[k])],
     decodeAs |-> IF decodeAs # ShiftBufferOutDefaults.decodeAs
                  THEN decodeAs ELSE None,
     groupEvery |-> groupEvery,
     maxItems |-> maxItems,
     trigger |-> IF trigger # ShiftBufferOutDefaults.trigger
                 THEN trigger ELSE None]

\* the fields a component is compared by
Fields(v, decodeAs, groupEvery, maxItems, trigger) ==
    [value |-> v, decodeAs |-> decodeAs, groupEvery |-> groupEvery,
     maxItems |-> maxItems, trigger |-> trigger]
NoOriginal == Fields(EmptyState, None, NoNumber, NoNumber, None)

\* new ShiftBufferOut(savedData), savedData not null: the field
\* initializers, then the constructor's assignments and redecodeAll(); the
\* input nodes of the new component are false
construct(savedData) ==
    LET decodeAs == IF savedData.decodeAs # None THEN savedData.decodeAs
                    ELSE ShiftBufferOutDefaults.decodeAs
    IN
    /\ _decodeAs' = decodeAs
    /\ _groupEvery' = NoNumber
    /\ _maxItems' = savedData.maxItems
    /\ _trigger' = IF savedData.trigger # None THEN savedData.trigger
                   ELSE ShiftBufferOutDefaults.trigger
    /\ _lastClock' = Unset
    /\ sbValue' = redecodeAll(ShiftBufferOut_savedStateFrom(savedData),
                              decodeAs, savedData.maxItems)
    /\ sbInputs' = [i \in INPUT |-> False]

NewShiftBuffer(savedData) ==
    /\ construct(savedData)
    /\ sbOriginal' = NoOriginal
    /\ last' = Op("newShiftBuffer", None, None, NoWire)
    /\ UNCHANGED notShift

\* the component is saved and a new one is constructed from the saved data
SaveLoadShiftBuffer ==
    /\ construct(ShiftBufferOut_toJSON(sbValue, _decodeAs, _groupEvery,
                                       _maxItems, _trigger))
    /\ sbOriginal' = Fields(sbValue, _decodeAs, _groupEvery, _maxItems, _trigger)
    /\ last' = Op("saveLoadShiftBuffer", None, None, NoWire)
    /\ UNCHANGED notShift

\* the value of an input node of the shift buffer changes
SetShiftInput(i, val) ==
    /\ sbInputs' = [sbInputs EXCEPT ![i] = val]
    /\ sbOriginal' = NoOriginal
    /\ last' = Op("setShiftInput", None, None, NoWire)
    /\ UNCHANGED <<sbValue, _decodeAs, _groupEvery, _maxItems, _trigger,
                   _lastClock, notShift>>

\* a recompute of the shift buffer: its value becomes what doRecalcValue
\* returns (last.old tells what the recompute did); the component holds at
\* most MaxBits bits
RecalcShiftBuffer ==
    LET r == ShiftBufferOut_doRecalcValue(sbInputs, sbValue, _lastClock,
                                          _trigger, _decodeAs, _maxItems)
    IN
    /\ r.did = "shift" => Len(allBitsOf(sbValue)) < MaxBits
    /\ sbValue' = r.value
    /\ _lastClock' = r.lastClock
    /\ sbOriginal' = NoOriginal
    /\ last' = Op("recalcShiftBuffer", None, r.did, NoWire)
    /\ UNCHANGED <<sbInputs, _decodeAs, _groupEvery, _maxItems, _trigger, notShift>>

\* the value of an input node of the shift buffer changes and the component
\* is recomputed for it, before any other input changes
ChangeShiftInput(i, val) ==
    LET in == [sbInputs EXCEPT ![i] = val]
        r == ShiftBufferOut_doRecalcValue(in, sbValue, _lastClock,
                                          _trigger, _decodeAs, _maxItems)
    IN
    /\ val # sbInputs[i]
    /\ r.did = "shift" => Len(allBitsOf(sbValue)) < MaxBits
    /\ sbInputs' = in
    /\ sbValue' = r.value
    /\ _lastClock' = r.lastClock
    /\ sbOriginal' = NoOriginal
    /\ last' = Op("changeShiftInput", None, r.did, NoWire)
    /\ UNCHANGED <<_decodeAs, _groupEvery, _maxItems, _trigger, notShift>>

\* ShiftBufferOut.doSetTrigger(trigger)
DoSetTrigger(trigger) ==
    /\ _trigger' = trigger
    /\ sbOriginal' = NoOriginal
    /\ last' = Op("doSetTrigger", None, None, NoWire)
    /\ UNCHANGED <<sbInputs, sbValue, _decodeAs, _groupEvery, _maxItems,
                   _lastClock, notShift>>

\* ShiftBufferOut.doSetDecodeAs(decodeAs)
DoSetDecodeAs(decodeAs) ==
    /\ _decodeAs' = decodeAs
    /\ sbValue' = redecodeAll(sbValue, decodeAs, _maxItems)
    /\ sbOriginal' = NoOriginal
    /\ last' = Op("doSetDecodeAs", None, None, NoWire)
    /\ UNCHANGED <<sbInputs, _groupEvery, _maxItems, _trigger, _lastClock, notShift>>

\* ShiftBufferOut.doSetGroupEvery(groupEvery)
DoSetGroupEvery(groupEvery) ==
    /\ _groupEvery' = groupEvery
    /\ sbOriginal' = NoOriginal
    /\ last' = Op("doSetGroupEvery", None, None, NoWire)
    /\ UNCHANGED <<sbInputs, sbValue, _decodeAs, _maxItems, _trigger,
                   _lastClock, notShift>>

\* new ShiftBufferOut(null)
ShiftInit ==
    /\ sbInputs = [i \in INPUT |-> False]
    /\ sbValue = EmptyState
    /\ _decodeAs = ShiftBufferOutDefaults.decodeAs
    /\ _groupEvery = NoNumber
    /\ _maxItems = NoNumber
    /\ _trigger = ShiftBufferOutDefaults.trigger
    /\ _lastClock = Unset
    /\ sbOriginal = NoOriginal

\* --------------------------------------------------------- QuadTriState
\* Arrays are sequences: element i of an array of the code is element i + 1
\* here. The values of the nodes of a component are functions of the node's
\* index, counted from 0 as in the code.
FixedArrayFill(val, n) == [k \in 1..n |-> val]

\* what a computation gives that throws
Throws == <<"throws">>

\* ComponentBase.inputValues(indices): the values of the input nodes of
\* these indices
inputValues(inputs, indices) ==
    IF \E k \in 1..Len(indices) : indices[k] \notin DOMAIN inputs
    THEN Throws
    ELSE [k \in 1..Len(indices) |-> inputs[indices[k]]]

isHighImpedance(v) == v = HighImpedance

\* const INPUT of QuadTriState
QuadTriState_INPUT == [I |-> <<0, 1, 2, 3>>, E |-> 4]

\* doRecalcValue that drives Unknown when disabled
QuadTriState_doRecalcValue_unknown(inputs) ==
    LET input == inputValues(inputs, QuadTriState_INPUT.I)
        enable == inputs[QuadTriState_INPUT.E]
    IN IF enable = True THEN input ELSE FixedArrayFill(Unknown, 4)

\* QuadTriState.doRecalcValue()
QuadTriState_doRecalcValue(inputs) ==
    LET input == inputValues(inputs, QuadTriState_INPUT.I)
        enable == inputs[QuadTriState_INPUT.E]
    IN IF isUnknown(enable) \/ isHighImpedance(enable)
       THEN FixedArrayFill(Unknown, 4)
       ELSE IF enable = False
       THEN FixedArrayFill(HighImpedance, 4)
       ELSE input

\* QuadTriState.propagateValue(newValue)
QuadTriState_propagateValue(outputs, newValue) ==
    [i \in DOMAIN outputs |-> IF i < 4 THEN newValue[i + 1] ELSE outputs[i]]

\* the value of input node i of the quad tri-state buffer changes to val,
\* and the component is recomputed and its value propagated
SetQuadInput(i, val) ==
    LET inputs == [qtInputs EXCEPT ![i] = val]
        newValue == QuadTriState_doRecalcValue(inputs)
    IN
    /\ val # qtInputs[i]
    /\ qtInputs' = inputs
    /\ qtValue' = newValue
    /\ qtOutputs' = QuadTriState_propagateValue(qtOutputs, newValue)
    /\ last' = Op("setQuadInput", None, None, NoWire)
    /\ UNCHANGED notQuad

\* new QuadTriState(editor, null)
QuadInit ==
    /\ qtInputs = [i \in 0..4 |-> False]
    /\ qtValue = FixedArrayFill(HighImpedance, 4)
    /\ qtOutputs = [i \in 0..3 |-> False]

\* ------------------------- CursorMovementManager, drawables that lock
\* The drawables of the editor: component a and wire waypoint b are there
\* from the start, component n is made by a component button. The pointer
\* is at a position X; a drawable is over the position PosOf gives.
Components == {"a", "n"}
Waypoints == {"b"}
Drawables == Components \cup Waypoints
DrawableOrder == <<"a", "b", "n">>
X == 0..3
PosOf(d) == CASE d = "a" -> 1 [] d = "b" -> 2 [] d = "n" -> 3

\* null for a timeout handle, and for _currentMouseDownData (mainComp is a
\* drawable or the canvas container in every MouseDownData)
NoHandle == 0
Background == "canvasContainer"
NoData ==
    [mainComp |-> None, selectionComps |-> {}, fireMouseClickedOnFinish |-> FALSE,
     initialXY |-> "NaN", triggeredContextMenu |-> FALSE, press |-> 0]
NoRect == <<>>

\* the elements of a set of drawables, as an array
ArrayOf(S) == SelectSeq(DrawableOrder, LAMBDA d : d \in S)
\* one call of handler h for each drawable of the array, for press p
CallsOn(h, comps, p) ==
    [k \in 1..Len(comps) |-> [h |-> h, comp |-> comps[k], press |-> p]]
Without(comps, d) == SelectSeq(comps, LAMBDA c : c # d)
Dragged(cs) == {cs[k].press : k \in {j \in 1..Len(cs) : cs[j].h = "mouseDraggedOn"}}

\* EditorSelection.toggle(elem)
toggle(selected, elem) ==
    IF elem \in selected THEN selected \ {elem} ELSE selected \cup {elem}

\* Drawable.isInRect(rect): rect is <<x, width>>, the width negative when
\* the rectangle is drawn leftwards
isInRect(d, rect) ==
    LET lo == IF rect[2] >= 0 THEN rect[1] ELSE rect[1] + rect[2]
        hi == IF rect[2] >= 0 THEN rect[1] + rect[2] ELSE rect[1]
    IN lo <= PosOf(d) /\ PosOf(d) <= hi

\* editor.components.all() and the waypoints of editor.wireMgr.wires
AllComponents == {d \in Components : compState[d] = "SPAWNED"}
AllWaypoints == Waypoints

\* finishCurrentRect that leaves the elements of the rectangle as they are
toggleAll_none(selected, rect) == selected

\* the two loops of finishCurrentRect: every component and every waypoint
\* in the rectangle is toggled once
toggleAll(selected, rect) ==
    LET inRect == {d \in AllComponents \cup AllWaypoints : isInRect(d, rect)}
    IN (selected \ inRect) \cup (inRect \ selected)

\* EditorSelection.finishCurrentRect(editor): the selected elements and the
\* rectangle afterwards
finishCurrentRect(selected, rect) ==
    IF rect # NoRect
    THEN [selected |-> toggleAll(selected, rect), rect |-> NoRect]
    ELSE [selected |-> selected, rect |-> rect]

\* EditorSelection.isSelected(component)
isSelected(selected, rect, component) ==
    LET prevSelected == component \in selected IN
    IF rect = NoRect THEN prevSelected
    ELSE IF isInRect(component, rect) THEN ~prevSelected ELSE prevSelected

\* The fields the hover timeout is kept in, as one record, and the pending
\* timeouts of the browser: a timeout stays pending until it fires or
\* clearTimeout is called with its handle.
Hover ==
    [over |-> _currentMouseOverComp, popper |-> _currentMouseOverPopper,
     handle |-> _startHoverTimeoutHandle, pending |-> hoverTimeouts]
SetHover(H) ==
    /\ _currentMouseOverComp' = H.over
    /\ _currentMouseOverPopper' = H.popper
    /\ _startHoverTimeoutHandle' = H.handle
    /\ hoverTimeouts' = H.pending
clearTimeout(pending, handle) == {t \in pending : t.handle # handle}
\* the handle setTimeout returns: one that no pending timeout has
freshHandle(pending) ==
    CHOOSE h \in 1..(Cardinality(pending) + 1) : \A t \in pending : t.handle # h

\* clearHoverTimeoutHandle()
clearHoverTimeoutHandle(H) ==
    IF H.handle # NoHandle
    THEN [H EXCEPT !.pending = clearTimeout(H.pending, H.handle),
                   !.handle = NoHandle]
    ELSE H

\* clearPopperIfNecessary()
clearPopperIfNecessary(H) == [H EXCEPT !.popper = None]

\* setCurrentMouseOverComp that keeps the hover timeout of the component
\* the pointer has left
setCurrentMouseOverComp_keep(H, comp) ==
    IF comp # H.over
    THEN LET h == freshHandle(H.pending)
         IN [over |-> comp, popper |-> None,
             handle |-> IF comp # None THEN h ELSE H.handle,
             pending |-> IF comp # None
                         THEN H.pending \cup {[handle |-> h, comp |-> comp]}
                         ELSE H.pending]
    ELSE H

\* setCurrentMouseOverComp(comp)
setCurrentMouseOverComp(H, comp) ==
    IF comp # H.over
    THEN LET H1 == clearHoverTimeoutHandle(clearPopperIfNecessary(H))
             h == freshHandle(H1.pending)
         IN IF comp # None
            THEN [H1 EXCEPT !.over = comp, !.handle = h,
                            !.pending = @ \cup {[handle |-> h, comp |-> comp]}]
            ELSE [H1 EXCEPT !.over = comp]
    ELSE H

\* updateMouseOver([x, y]): the drawable of the editor the pointer is over
findMouseOverDrawable(x) ==
    IF \E d \in Drawables : compState[d] = "SPAWNED" /\ PosOf(d) = x
    THEN CHOOSE d \in Drawables : compState[d] = "SPAWNED" /\ PosOf(d) = x
    ELSE None
updateMouseOver(H, x) == setCurrentMouseOverComp(H, findMouseOverDrawable(x))

\* the history of the presses: those that locked on a drawable, those a
\* drag, a click was delivered for, and those that were released or
\* cancelled
LogPress(cs, clicked, ended, locked) ==
    pressHist' = [locked |-> pressHist.locked \cup locked,
                  dragged |-> pressHist.dragged \cup Dragged(cs),
                  clicked |-> pressHist.clicked \cup clicked,
                  ended |-> pressHist.ended \cup ended]
Log(cs, clicked, ended) == LogPress(cs, clicked, ended, {})

\* the timeout callback of setStartDragTimeout that skips the pressed
\* component when it goes through the selection
dragCalls_skipMain(start) ==
    (IF start.mainComp \in Drawables
     THEN CallsOn("mouseDraggedOn", <<start.mainComp>>, start.press) ELSE <<>>)
    \o CallsOn("mouseDraggedOn",
               Without(ArrayOf(start.selectionComps), start.mainComp), start.press)

\* the calls of mouseDraggedOn the timeout callback of setStartDragTimeout
\* makes when fireDrag is true
dragCalls(start) ==
    (IF start.mainComp \in Drawables
     THEN CallsOn("mouseDraggedOn", <<start.mainComp>>, start.press) ELSE <<>>)
    \o CallsOn("mouseDraggedOn", ArrayOf(start.selectionComps), start.press)

\* _mouseUpTouchEnd that fires the click whatever fireMouseClickedOnFinish is
fireClick_always(data) == data # NoData

\* _mouseUpTouchEnd: this._currentMouseDownData?.fireMouseClickedOnFinish ?? false
fireClick(data) == data # NoData /\ data.fireMouseClickedOnFinish

\* _mouseMoveTouchMove that leaves the start-drag timeout pending when the
\* pointer drags
clearStartDragTimeout_none(pending, handle) == pending

\* clearStartDragTimeout(): the pending timeouts afterwards
clearStartDragTimeout(pending, handle) ==
    IF handle # NoHandle THEN clearTimeout(pending, handle) ELSE pending

\* _mouseDownTouchStart(e) with the pointer at x; lockMouseOver is what
\* mouseDownOn returns for the drawable under the pointer
MouseDownTouchStart(x, lockMouseOver, shiftKey) ==
    LET H0 == clearPopperIfNecessary(clearHoverTimeoutHandle(Hover))
        H1 == updateMouseOver(H0, x)
        over == H1.over
        selectedComps == IF selectionDefined THEN previouslySelectedElements
                         ELSE {}
        p == pressSeq + 1
        newMouseDownData ==
            [mainComp |-> over, selectionComps |-> selectedComps,
             fireMouseClickedOnFinish |-> TRUE, initialXY |-> "xy",
             triggeredContextMenu |-> FALSE, press |-> p]
        allowSelection == ModeAtLeast(mode, "CONNECT")
    IN
    /\ _currentMouseDownData = NoData
    /\ pressSeq < MaxPresses
    /\ SetHover(H1)
    /\ IF over # None
       THEN /\ handlerCalls' =
                  CallsOn("mouseDownOn", <<over>>, p)
                  \o (IF lockMouseOver
                      THEN CallsOn("mouseDownOn",
                                   Without(ArrayOf(selectedComps), over), p)
                      ELSE <<>>)
            /\ IF lockMouseOver
               THEN /\ _currentMouseDownData' = newMouseDownData
                    /\ _startDragTimeoutHandle' = p
                    /\ dragTimeouts' = dragTimeouts
                                       \cup {[handle |-> p, start |-> newMouseDownData]}
                    /\ pressSeq' = p
               ELSE UNCHANGED <<_currentMouseDownData, _startDragTimeoutHandle,
                                dragTimeouts, pressSeq>>
            /\ UNCHANGED <<selectionDefined, previouslySelectedElements,
                           currentlyDrawnRect>>
       ELSE /\ _currentMouseDownData' =
                  [newMouseDownData EXCEPT !.mainComp = Background,
                                        !.selectionComps = {}]
            /\ pressSeq' = p
            /\ handlerCalls' = <<[h |-> "mouseDownOnBackground", comp |-> None,
                                  press |-> p]>>
            /\ IF selectionDefined
               THEN IF shiftKey /\ allowSelection
                    THEN /\ currentlyDrawnRect' = <<x, 1>>
                         /\ UNCHANGED <<selectionDefined, previouslySelectedElements>>
                    ELSE /\ selectionDefined' = FALSE
                         /\ previouslySelectedElements' = {}
                         /\ currentlyDrawnRect' = NoRect
               ELSE UNCHANGED <<selectionDefined, previouslySelectedElements,
                                currentlyDrawnRect>>
            /\ UNCHANGED <<_startDragTimeoutHandle, dragTimeouts>>
    /\ LogPress(<<>>, {}, {}, IF over # None /\ lockMouseOver THEN {p} ELSE {})
    /\ last' = Op("mouseDownTouchStart", None, None, NoWire)
    /\ UNCHANGED <<compState, notCursor>>

\* _mouseDownTouchStart(e) while _currentMouseDownData is not null
MouseDownTouchStartIgnored ==
    /\ _currentMouseDownData # NoData
    /\ SetHover(clearPopperIfNecessary(clearHoverTimeoutHandle(Hover)))
    /\ handlerCalls' = <<>>
    /\ Log(<<>>, {}, {})
    /\ last' = Op("mouseDownTouchStartIgnored", None, None, NoWire)
    /\ UNCHANGED <<_currentMouseDownData, _startDragTimeoutHandle, dragTimeouts,
                   pressSeq, selectionDefined, previouslySelectedElements,
                   currentlyDrawnRect, compState, notCursor>>

\* _mouseMoveTouchMove(e) with the pointer at x; far tells that the pointer
\* is 5 px or more from where the press began
MouseMoveTouchMove(x, far) ==
    LET data == _currentMouseDownData
        allowSelection == ModeAtLeast(mode, "CONNECT")
    IN
    /\ IF data # NoData
       THEN /\ IF data.triggeredContextMenu
               THEN /\ _currentMouseDownData' = NoData
                    /\ handlerCalls' = <<>>
                    /\ Log(<<>>, {}, {data.press})
                    /\ UNCHANGED <<_startDragTimeoutHandle, dragTimeouts,
                                   selectionDefined, previouslySelectedElements,
                                   currentlyDrawnRect>>
               ELSE IF data.mainComp \in Drawables
               THEN IF data.initialXY = "NaN" \/ far
                    THEN LET cs == CallsOn("mouseDraggedOn", <<data.mainComp>>,
                                           data.press)
                                   \o CallsOn("mouseDraggedOn",
                                              Without(ArrayOf(data.selectionComps),
                                                      data.mainComp), data.press)
                         IN /\ dragTimeouts' = clearStartDragTimeout(
                                                  dragTimeouts, _startDragTimeoutHandle)
                            /\ _startDragTimeoutHandle' = NoHandle
                            /\ _currentMouseDownData' =
                                  [data EXCEPT !.fireMouseClickedOnFinish = FALSE]
                            /\ handlerCalls' = cs
                            /\ Log(cs, {}, {})
                            /\ UNCHANGED <<selectionDefined, previouslySelectedElements,
                                           currentlyDrawnRect>>
                    ELSE /\ handlerCalls' = <<>>
                         /\ Log(<<>>, {}, {})
                         /\ UNCHANGED <<_currentMouseDownData, _startDragTimeoutHandle,
                                        dragTimeouts, selectionDefined,
                                        previouslySelectedElements, currentlyDrawnRect>>
               ELSE /\ handlerCalls' = <<[h |-> "mouseDraggedOnBackground",
                                          comp |-> None, press |-> data.press]>>
                    /\ Log(<<>>, {}, {})
                    /\ IF allowSelection
                       THEN IF ~selectionDefined
                            THEN /\ selectionDefined' = TRUE
                                 /\ previouslySelectedElements' = {}
                                 /\ currentlyDrawnRect' = <<x, 1>>
                            ELSE /\ currentlyDrawnRect' =
                                       IF currentlyDrawnRect = NoRect THEN NoRect
                                       ELSE <<currentlyDrawnRect[1],
                                              x - currentlyDrawnRect[1]>>
                                 /\ UNCHANGED <<selectionDefined,
                                                previouslySelectedElements>>
                       ELSE UNCHANGED <<selectionDefined, previouslySelectedElements,
                                        currentlyDrawnRect>>
                    /\ UNCHANGED <<_currentMouseDownData, _startDragTimeoutHandle,
                                   dragTimeouts>>
            /\ UNCHANGED <<_currentMouseOverComp, _currentMouseOverPopper,
                           _startHoverTimeoutHandle, hoverTimeouts>>
       ELSE /\ SetHover(updateMouseOver(Hover, x))
            /\ handlerCalls' = <<>>
            /\ Log(<<>>, {}, {})
            /\ UNCHANGED <<_currentMouseDownData, _startDragTimeoutHandle,
                           dragTimeouts, selectionDefined,
                           previouslySelectedElements, currentlyDrawnRect>>
    /\ last' = Op("mouseMoveTouchMove", None, None, NoWire)
    /\ UNCHANGED <<pressSeq, compState, notCursor>>

\* the kinds of release: isDoubleClick false, or true with what
\* mouseDoubleClickedOn returns
ClickKinds == {"single", "doubleHandled", "doubleUnhandled"}

\* _mouseUpTouchEnd(e) for the event of the listener, which then updates
\* the mouse-over drawable (mouseup) or sets it to null (touchend)
mouseUpTouchEnd(kind, event, x) ==
    LET data == _currentMouseDownData
        mouseUpTarget == IF data # NoData THEN data.mainComp
                         ELSE _currentMouseOverComp
        p == data.press
        onDrawable == mouseUpTarget \in Drawables
        click == onDrawable /\ fireClick(data)
        cs == IF onDrawable
              THEN CallsOn("mouseUpOn", <<mouseUpTarget>>, p)
                   \o CallsOn("mouseUpOn",
                              Without(ArrayOf(data.selectionComps), mouseUpTarget), p)
                   \o (IF click
                       THEN (IF kind = "single" THEN <<>>
                             ELSE CallsOn("mouseDoubleClickedOn",
                                          <<mouseUpTarget>>, p))
                            \o (IF kind = "doubleHandled" THEN <<>>
                                ELSE CallsOn("mouseClickedOn", <<mouseUpTarget>>, p))
                       ELSE <<>>)
              ELSE <<[h |-> "mouseUpOnBackground", comp |-> None, press |-> p]>>
        sel == IF ~onDrawable /\ selectionDefined
               THEN finishCurrentRect(previouslySelectedElements, currentlyDrawnRect)
               ELSE [selected |-> previouslySelectedElements,
                     rect |-> currentlyDrawnRect]
    IN
    /\ IF onDrawable
       THEN /\ dragTimeouts' = clearStartDragTimeout(dragTimeouts,
                                                     _startDragTimeoutHandle)
            /\ _startDragTimeoutHandle' = NoHandle
       ELSE UNCHANGED <<_startDragTimeoutHandle, dragTimeouts>>
    /\ handlerCalls' = cs
    /\ previouslySelectedElements' = sel.selected
    /\ currentlyDrawnRect' = sel.rect
    /\ _currentMouseDownData' = NoData
    /\ Log(<<>>, IF click THEN {p} ELSE {}, IF data # NoData THEN {p} ELSE {})
    /\ SetHover(IF event = "mouseup" THEN updateMouseOver(Hover, x)
                ELSE setCurrentMouseOverComp(Hover, None))
    /\ last' = Op("mouseUpTouchEnd", None, event, NoWire)
    /\ UNCHANGED <<pressSeq, selectionDefined, compState, notCursor>>

\* the canvas's mouseup listener: _mouseUpTouchEnd, then updateMouseOver
CanvasMouseUp(x, kind) ==
    mouseUpTouchEnd(kind, "mouseup", x)

\* the canvas's and the buttons' touchend listener: _mouseUpTouchEnd, then
\* setCurrentMouseOverComp(null)
CanvasTouchEnd(kind) ==
    mouseUpTouchEnd(kind, "touchend", 0)

\* the callback of the timeout of setStartDragTimeout runs, 300 ms after
\* the press that set it
DragTimeout(t) ==
    LET endMouseDownData == _currentMouseDownData
        fireDrag == endMouseDownData = NoData
                    \/ ~endMouseDownData.triggeredContextMenu
        cs == IF fireDrag THEN dragCalls(t.start) ELSE <<>>
    IN
    /\ t \in dragTimeouts
    /\ dragTimeouts' = dragTimeouts \ {t}
    /\ _currentMouseDownData' =
          IF endMouseDownData # NoData
          THEN [endMouseDownData EXCEPT !.fireMouseClickedOnFinish = FALSE]
          ELSE endMouseDownData
    /\ handlerCalls' = cs
    /\ Log(cs, {}, {})
    /\ last' = Op("dragTimeout", None, None, NoWire)
    /\ UNCHANGED <<_currentMouseOverComp, _currentMouseOverPopper,
                   _startHoverTimeoutHandle, hoverTimeouts,
                   _startDragTimeoutHandle, pressSeq, selectionDefined,
                   previouslySelectedElements, currentlyDrawnRect, compState,
                   notCursor>>

\* EditHandlers.mouseHoverOn that makes the tooltip of a dead component
mouseHoverOn_dead(comp, hideTooltips) ==
    IF hideTooltips THEN None ELSE comp

\* EditHandlers.mouseHoverOn(comp): the component the popper is made for
\* (every drawable has a tooltip)
mouseHoverOn(comp, hideTooltips) ==
    IF hideTooltips THEN None
    ELSE IF comp \in Components /\ compState[comp] = "DEAD" THEN None
    ELSE comp

\* the callback of the hover timeout of setCurrentMouseOverComp runs,
\* 1200 ms after the pointer came over the drawable
HoverTimeout(t, hideTooltips) ==
    /\ t \in hoverTimeouts
    /\ hoverTimeouts' = hoverTimeouts \ {t}
    /\ _currentMouseOverPopper' = mouseHoverOn(t.comp, hideTooltips)
    /\ _startHoverTimeoutHandle' = NoHandle
    /\ handlerCalls' = <<[h |-> "mouseHoverOn", comp |-> t.comp, press |-> 0]>>
    /\ Log(<<>>, {}, {})
    /\ last' = Op("hoverTimeout", None, None, NoWire)
    /\ UNCHANGED <<_currentMouseOverComp, _currentMouseDownData,
                   _startDragTimeoutHandle, dragTimeouts, pressSeq,
                   selectionDefined, previouslySelectedElements,
                   currentlyDrawnRect, compState, notCursor>>

\* the canvas's contextmenu listener and EditHandlers.contextMenuOn;
\* hasMenu tells that makeContextMenu() returns a menu
ContextMenu(hasMenu) ==
    LET shown == ModeAtLeast(mode, "CONNECT") /\ _currentMouseOverComp # None
                 /\ hasMenu
    IN
    /\ _currentMouseDownData' =
          IF shown /\ _currentMouseDownData # NoData
          THEN [_currentMouseDownData EXCEPT !.triggeredContextMenu = TRUE]
          ELSE _currentMouseDownData
    /\ handlerCalls' =
          IF ModeAtLeast(mode, "CONNECT") /\ _currentMouseOverComp # None
          THEN <<[h |-> "contextMenuOn", comp |-> _currentMouseOverComp,
                  press |-> 0]>>
          ELSE <<>>
    /\ Log(<<>>, {}, {})
    /\ last' = Op("contextMenu", None, None, NoWire)
    /\ UNCHANGED <<_currentMouseOverComp, _currentMouseOverPopper,
                   _startHoverTimeoutHandle, hoverTimeouts,
                   _startDragTimeoutHandle, dragTimeouts, pressSeq,
                   selectionDefined, previouslySelectedElements,
                   currentlyDrawnRect, compState, notCursor>>

\* buttonMouseDownTouchStart(e) of a component button: the factory makes
\* component n
ButtonMouseDownTouchStart(lockMouseOver) ==
    LET newComponent == "n"
        p == pressSeq + 1
        cs == CallsOn("mouseDownOn", <<newComponent>>, p)
              \o CallsOn("mouseDraggedOn", <<newComponent>>, p)
    IN
    /\ compState[newComponent] = "NONE"
    /\ pressSeq < MaxPresses
    /\ compState' = [compState EXCEPT ![newComponent] = "SPAWNED"]
    /\ selectionDefined' = FALSE
    /\ previouslySelectedElements' = {}
    /\ currentlyDrawnRect' = NoRect
    /\ _currentMouseOverComp' = newComponent
    /\ pressSeq' = p
    /\ _currentMouseDownData' =
          IF lockMouseOver
          THEN [mainComp |-> newComponent, selectionComps |-> {},
                fireMouseClickedOnFinish |-> FALSE, initialXY |-> "NaN",
                triggeredContextMenu |-> FALSE, press |-> p]
          ELSE _currentMouseDownData
    /\ handlerCalls' = cs
    /\ LogPress(cs, {}, {}, IF lockMouseOver THEN {p} ELSE {})
    /\ last' = Op("buttonMouseDownTouchStart", None, None, NoWire)
    /\ UNCHANGED <<_currentMouseOverPopper, _startHoverTimeoutHandle,
                   hoverTimeouts, _startDragTimeoutHandle, dragTimeouts,
                   notCursor>>

\* toggleSelect(comp)
ToggleSelect(comp) ==
    /\ compState[comp] = "SPAWNED"
    /\ selectionDefined' = TRUE
    /\ previouslySelectedElements' =
          toggle(IF selectionDefined THEN previouslySelectedElements ELSE {}, comp)
    /\ currentlyDrawnRect' = IF selectionDefined THEN currentlyDrawnRect ELSE NoRect
    /\ handlerCalls' = <<>>
    /\ Log(<<>>, {}, {})
    /\ last' = Op("toggleSelect", None, None, NoWire)
    /\ UNCHANGED <<_currentMouseOverComp, _currentMouseOverPopper,
                   _startHoverTimeoutHandle, hoverTimeouts,
                   _currentMouseDownData, _startDragTimeoutHandle, dragTimeouts,
                   pressSeq, compState, notCursor>>

\* a component is deleted: its state becomes ComponentState.DEAD
DeleteComponent(comp) ==
    /\ compState[comp] = "SPAWNED"
    /\ compState' = [compState EXCEPT ![comp] = "DEAD"]
    /\ handlerCalls' = <<>>
    /\ Log(<<>>, {}, {})
    /\ last' = Op("deleteComponent", None, None, NoWire)
    /\ UNCHANGED <<previouslySelectedElements, _currentMouseOverComp, _currentMouseOverPopper,
                   _startHoverTimeoutHandle, hoverTimeouts,
                   _currentMouseDownData, _startDragTimeoutHandle, dragTimeouts,
                   pressSeq, selectionDefined, currentlyDrawnRect, notCursor>>

\* new CursorMovementManager(editor), with components a and b in the editor
CursorInit ==
    /\ _currentMouseOverComp = None
    /\ _currentMouseOverPopper = None
    /\ _currentMouseDownData = NoData
    /\ _startHoverTimeoutHandle = NoHandle
    /\ _startDragTimeoutHandle = NoHandle
    /\ hoverTimeouts = {}
    /\ dragTimeouts = {}
    /\ selectionDefined = FALSE
    /\ previouslySelectedElements = {}
    /\ currentlyDrawnRect = NoRect
    /\ handlerCalls = <<>>
    /\ pressHist = [locked |-> {}, dragged |-> {}, clicked |-> {}, ended |-> {}]
    /\ pressSeq = 0
    /\ compState = [d \in Drawables |-> IF d = "n" THEN "NONE" ELSE "SPAWNED"]

\* ------------------------------------------------------------ MoveManager
\* the drawables with a position the move manager is called for: those of
\* the editor and a second waypoint
Movables == Drawables \cup {"c"}

\* changeMovingDrawables that notifies the editor at every call
changeMovingDrawables_always(before, after) == 1

\* changeMovingDrawables(change): how many times the editor is notified
\* (updateCursor and one redraw reason), for the set before and after
changeMovingDrawables(before, after) ==
    LET emptyBefore == before = {}
        emptyAfter == after = {}
    IN IF emptyBefore # emptyAfter THEN 1 ELSE 0

\* areDrawablesMoving()
areDrawablesMoving == Cardinality(_movingDrawables) > 0

\* setDrawableMoving(comp)
setDrawableMoving(comp) ==
    LET after == _movingDrawables \cup {comp} IN
    /\ _movingDrawables' = after
    /\ moveNotified' = changeMovingDrawables(_movingDrawables, after)
    /\ lastMove' = [lastMove EXCEPT ![comp] = "moving"]
    /\ last' = Op("setDrawableMoving", None, comp, NoWire)
    /\ UNCHANGED notMove

\* setDrawableStoppedMoving(comp)
setDrawableStoppedMoving(comp) ==
    LET after == _movingDrawables \ {comp} IN
    /\ _movingDrawables' = after
    /\ moveNotified' = changeMovingDrawables(_movingDrawables, after)
    /\ lastMove' = [lastMove EXCEPT ![comp] = "stopped"]
    /\ last' = Op("setDrawableStoppedMoving", None, comp, NoWire)
    /\ UNCHANGED notMove

\* new MoveManager(editor)
MoveInit ==
    /\ _movingDrawables = {}
    /\ moveNotified = 0
    /\ lastMove = [d \in Movables |-> "never"]

\* ---------------------------------------------------------- DecoderBCD4
\* const INPUT of DecoderBCD4
DecoderBCD4_INPUT == [I |-> <<0, 1, 2, 3>>]

\* doRecalcValue without the carry to the tens: the binary digits of the
\* number as they are
DecoderBCD4_doRecalcValue_binary(inputs) ==
    LET input == inputValues(inputs, DecoderBCD4_INPUT.I)
        number == displayValuesFromArray(input, FALSE)
    IN IF number = NoNumber THEN FixedArrayFill(Unknown, 5)
       ELSE <<False, input[4], input[3], input[2], input[1]>>

\* DecoderBCD4.doRecalcValue(): the switch on the number (value) the inputs encode
DecoderBCD4_doRecalcValue(inputs) ==
    LET input == inputValues(inputs, DecoderBCD4_INPUT.I)
        number == displayValuesFromArray(input, FALSE)
    IN IF number = NoNumber
       THEN FixedArrayFill(Unknown, 5)
       ELSE CASE number = 0 -> <<False, False, False, False, False>>
              [] number = 1 -> <<False, False, False, False, True>>
              [] number = 2 -> <<False, False, False, True, False>>
              [] number = 3 -> <<False, False, False, True, True>>
              [] number = 4 -> <<False, False, True, False, False>>
              [] number = 5 -> <<False, False, True, False, True>>
              [] number = 6 -> <<False, False, True, True, False>>
              [] number = 7 -> <<False, False, True, True, True>>
              [] number = 8 -> <<False, True, False, False, False>>
              [] number = 9 -> <<False, True, False, False, True>>
              [] number = 10 -> <<True, False, False, False, False>>
              [] number = 11 -> <<True, False, False, False, True>>
              [] number = 12 -> <<True, False, False, True, False>>
              [] number = 13 -> <<True, False, False, True, True>>
              [] number = 14 -> <<True, False, True, False, False>>
              [] number = 15 -> <<True, False, True, False, True>>
              [] OTHER -> FixedArrayFill(Unknown, 5)

\* DecoderBCD4.propagateValue(newValue): output i is newValue[5 - i - 1]
DecoderBCD4_propagateValue(outputs, newValue) ==
    [i \in DOMAIN outputs |-> newValue[(5 - i - 1) + 1]]

\* the value of input node i of the BCD decoder changes to val, and the
\* component is recomputed and its value propagated
SetBcdInput(i, val) ==
    LET inputs == [bcdInputs EXCEPT ![i] = val]
        newValue == DecoderBCD4_doRecalcValue(inputs)
    IN
    /\ val # bcdInputs[i]
    /\ bcdInputs' = inputs
    /\ bcdValue' = newValue
    /\ bcdOutputs' = DecoderBCD4_propagateValue(bcdOutputs, newValue)
    /\ last' = Op("setBcdInput", None, None, NoWire)
    /\ UNCHANGED notBcd

\* new DecoderBCD4(editor, null)
BcdInit ==
    /\ bcdInputs = [i \in 0..3 |-> False]
    /\ bcdValue = FixedArrayFill(False, 5)
    /\ bcdOutputs = [i \in 0..4 |-> False]

\* ------------------------------------------------------------------ Mux
\* the subclasses of Mux: the arguments of defineMux and of super(...)
MuxKinds == {"2to1", "4to1", "8to1", "4to2", "8to2", "8to4"}
NumInputs(m) ==
    CASE m = "2to1" -> 3 [] m = "4to1" -> 6 [] m = "8to1" -> 11
      [] m = "4to2" -> 5 [] m = "8to2" -> 10 [] m = "8to4" -> 9
NumOutputs(m) ==
    CASE m = "2to1" -> 1 [] m = "4to1" -> 1 [] m = "8to1" -> 1
      [] m = "4to2" -> 2 [] m = "8to2" -> 2 [] m = "8to4" -> 4
numFrom(m) ==
    CASE m = "2to1" -> 2 [] m = "4to1" -> 4 [] m = "8to1" -> 8
      [] m = "4to2" -> 4 [] m = "8to2" -> 8 [] m = "8to4" -> 8
numSel(m) ==
    CASE m = "2to1" -> 1 [] m = "4to1" -> 2 [] m = "8to1" -> 3
      [] m = "4to2" -> 1 [] m = "8to2" -> 2 [] m = "8to4" -> 1
numTo(m) ==
    CASE m = "2to1" -> 1 [] m = "4to1" -> 1 [] m = "8to1" -> 1
      [] m = "4to2" -> 2 [] m = "8to2" -> 2 [] m = "8to4" -> 4

\* Math.ceil(a / b)
ceilDiv(a, b) == (a + b - 1) \div b

\* generateInputIndices that makes one group less
generateInputIndices_short(from, sel, to) ==
    LET numGroups == ceilDiv(from, to) - 1
    IN [I |-> [g \in 1..numGroups |-> [o \in 1..to |-> (g - 1) * to + (o - 1)]],
        S |-> [s \in 1..sel |-> numGroups * to + (s - 1)]]

\* Mux.generateInputIndices(numFrom, numSel, numTo): ind counts up through
\* the groups, then through the selectors
generateInputIndices(from, sel, to) ==
    LET numGroups == ceilDiv(from, to)
    IN [I |-> [g \in 1..numGroups |-> [o \in 1..to |-> (g - 1) * to + (o - 1)]],
        S |-> [s \in 1..sel |-> numGroups * to + (s - 1)]]

\* Mux.generateOutputIndices(numTo)
generateOutputIndices(to) == [Z |-> [o \in 1..to |-> o - 1]]

\* static INPUT and OUTPUT of each subclass
MuxIndices ==
    [m \in MuxKinds |->
        [INPUT |-> generateInputIndices(numFrom(m), numSel(m), numTo(m)),
         OUTPUT |-> generateOutputIndices(numTo(m))]]
Mux_INPUT(m) == MuxIndices[m].INPUT
Mux_OUTPUT(m) == MuxIndices[m].OUTPUT

\* doRecalcValue that takes the first selector for the most significant
Mux_doRecalcValue_msb(m, inputs) ==
    LET sels == inputValues(inputs, Mux_INPUT(m).S)
        sel == displayValuesFromArray(sels, TRUE)
    IN IF sel = NoNumber THEN FixedArrayFill(Unknown, numTo(m))
       ELSE inputValues(inputs, Mux_INPUT(m).I[sel + 1])

\* Mux.doRecalcValue(); INPUT.I[sel] of a missing group is undefined and
\* inputValues of it throws
Mux_doRecalcValue(m, inputs) ==
    LET sels == inputValues(inputs, Mux_INPUT(m).S)
        sel == IF sels = Throws THEN NoNumber
               ELSE displayValuesFromArray(sels, FALSE)
    IN IF sels = Throws THEN Throws
       ELSE IF sel = NoNumber THEN FixedArrayFill(Unknown, numTo(m))
       ELSE IF sel + 1 \notin DOMAIN Mux_INPUT(m).I THEN Throws
       ELSE inputValues(inputs, Mux_INPUT(m).I[sel + 1])

\* Mux.propagateValue(newValues)
Mux_propagateValue(m, outputs, newValues) ==
    LET Z == Mux_OUTPUT(m).Z
    IN [k \in DOMAIN outputs |->
          IF \E i \in 1..Len(Z) : Z[i] = k
          THEN newValues[CHOOSE i \in 1..Len(Z) : Z[i] = k]
          ELSE outputs[k]]

\* the data inputs of a multiplexer that are not false
Driven(m, inputs) == {k \in 0..(numFrom(m) - 1) : inputs[k] # False}

\* the recompute of the multiplexer and the propagation of its value
recalcMux(m, inputs) ==
    \E newValue \in {Mux_doRecalcValue(m, inputs)} :
       /\ muxValue' = newValue
       /\ muxOutputs' = IF newValue = Throws THEN muxOutputs
                        ELSE Mux_propagateValue(m, muxOutputs, newValue)

\* new Mux2To1(editor, null) .. new Mux8To4(editor, null)
NewMux(m) ==
    /\ muxKind' = m
    /\ muxInputs' = [k \in 0..(NumInputs(m) - 1) |-> False]
    /\ muxValue' = FixedArrayFill(False, numTo(m))
    /\ muxOutputs' = [k \in 0..(NumOutputs(m) - 1) |-> False]
    /\ last' = Op("newMux", None, None, NoWire)
    /\ UNCHANGED notMux

\* the value of input node i of the multiplexer changes to val, and the
\* component is recomputed and its value propagated; of the 8 data inputs
\* of the larger multiplexers at most MaxDriven are not false
SetMuxInput(i, val) ==
    /\ i \in DOMAIN muxInputs
    /\ val # muxInputs[i]
    /\ \E inputs \in {[muxInputs EXCEPT ![i] = val]} :
          /\ numFrom(muxKind) > 4 =>
                Cardinality(Driven(muxKind, inputs)) <= MaxDriven
          /\ muxInputs' = inputs
          /\ recalcMux(muxKind, inputs)
    /\ last' = Op("setMuxInput", None, None, NoWire)
    /\ UNCHANGED <<muxKind, notMux>>

\* a recompute of the multiplexer with its inputs unchanged
RecalcMux ==
    /\ recalcMux(muxKind, muxInputs)
    /\ last' = Op("recalcMux", None, None, NoWire)
    /\ UNCHANGED <<muxKind, muxInputs, notMux>>

MuxInit ==
    /\ muxKind = "2to1"
    /\ muxInputs = [k \in 0..2 |-> False]
    /\ muxValue = FixedArrayFill(False, 1)
    /\ muxOutputs = [k \in 0..0 |-> False]

\* ------------------------------------------------------------ InputByte
\* A string is the sequence of its characters. An absent val:
NoVal == <<None>>

\* toLogicValueRepr joined into a string, and toLogicValueFromChar
toLogicValueRepr(v) ==
    CASE v = True -> "1" [] v = False -> "0" [] v = Unknown -> "?"
      [] v = HighImpedance -> "Z"
toLogicValueFromChar(char) ==
    CASE char = "1" -> True [] char = "0" -> False [] char = "?" -> Unknown
      [] char = "Z" -> HighImpedance [] OTHER -> Unknown

\* savedStateFrom that reads the string from its first character on
InputByte_savedStateFrom_forward(val) ==
    IF val = NoVal THEN FixedArrayFill(False, 8)
    ELSE [k \in 1..8 |-> IF k <= Len(val) THEN toLogicValueFromChar(val[k])
                         ELSE False]

\* InputByte.savedStateFrom(savedData): inputs[i] is the character of index
\* lastIndex - i, for i from 0 until the index is negative
InputByte_savedStateFrom(val) ==
    IF val = NoVal THEN FixedArrayFill(False, 8)
    ELSE LET rep == val
             lastIndex == Len(rep) - 1
         IN [k \in 1..8 |->
               LET i == k - 1
                   index == lastIndex - i
               IN IF index < 0 THEN False
                  ELSE toLogicValueFromChar(rep[index + 1])]

\* InputByte.contentRepr()
contentRepr(v) ==
    LET nontrivial == \E k \in 1..8 : v[k] # False
    IN IF ~nontrivial THEN NoVal
       ELSE reverse([k \in 1..Len(v) |-> toLogicValueRepr(v[k])])

\* history: what the last step loaded (val) and saved (from)
Saved(val, from) == [val |-> val, from |-> from]
NoSaved == Saved(NoVal, <<>>)

\* new InputByte(editor, savedData) with savedData.val = val
NewInputByte(val) ==
    /\ ibValue' = InputByte_savedStateFrom(val)
    /\ ibSaved' = Saved(val, <<>>)
    /\ last' = Op("newInputByte", None, None, NoWire)
    /\ UNCHANGED notByte

\* the component is saved and a new one is constructed from the saved data
SaveLoadInputByte ==
    /\ ibValue' = InputByte_savedStateFrom(contentRepr(ibValue))
    /\ ibSaved' = Saved(contentRepr(ibValue), ibValue)
    /\ last' = Op("saveLoadInputByte", None, None, NoWire)
    /\ UNCHANGED notByte

\* InputByte.mouseClicked(e) on cell i: the bit takes its next value
\* (InputBit.nextValue), any value but the one it has
MouseClickedByte(i, val) ==
    /\ mode # "STATIC"
    /\ val # ibValue[i + 1]
    /\ ibValue' = [ibValue EXCEPT ![i + 1] = val]
    /\ ibSaved' = NoSaved
    /\ last' = Op("mouseClickedByte", None, None, NoWire)
    /\ UNCHANGED notByte

\* new InputByte(editor, null)
ByteInit ==
    /\ ibValue = FixedArrayFill(False, 8)
    /\ ibSaved = NoSaved

\* ------------------------------------------------- Clock, saved and loaded
\* A field of the saved data of a clock that may be absent is <<>> when it
\* is absent and <<x>> when it is x.
Absent == <<>>

\* toJSON that never writes the phase
Clock_toJSON_noPhase(period, dutycycle, phase, showLabel) ==
    [period |-> period,
     dutycycle |-> IF dutycycle = ClockDefaults.dutycycle THEN Absent
                   ELSE <<dutycycle>>,
     phase |-> Absent,
     showLabel |-> IF showLabel = ClockDefaults.showLabel THEN Absent
                   ELSE <<showLabel>>]

\* Clock.toJSON()
Clock_toJSON(period, dutycycle, phase, showLabel) ==
    [period |-> period,
     dutycycle |-> IF dutycycle = ClockDefaults.dutycycle THEN Absent
                   ELSE <<dutycycle>>,
     phase |-> IF phase = ClockDefaults.phase THEN Absent ELSE <<phase>>,
     showLabel |-> IF showLabel = ClockDefaults.showLabel THEN Absent
                   ELSE <<showLabel>>]

\* new Clock(savedData), savedData not null: the field initializers and the
\* constructor, which ends with tickCallback(Timeline.adjustedTime())
Clock_constructor(c, savedData) ==
    LET d == IF savedData.dutycycle # Absent
             THEN jsRem(savedData.dutycycle[1], 100)
             ELSE ClockDefaults.dutycycle
        ph == IF savedData.phase # Absent
              THEN jsRem(savedData.phase[1], savedData.period)
              ELSE ClockDefaults.phase
    IN
    /\ state[c] = "NONE"
    /\ _period' = [_period EXCEPT ![c] = savedData.period]
    /\ _dutycycle' = [_dutycycle EXCEPT ![c] = d]
    /\ _phase' = [_phase EXCEPT ![c] = ph]
    /\ _showLabel' = [_showLabel EXCEPT ![c] =
                         IF savedData.showLabel # Absent
                         THEN savedData.showLabel[1]
                         ELSE ClockDefaults.showLabel]
    /\ state' = [state EXCEPT ![c] = "SPAWNED"]
    /\ clockSaved' = [clockSaved EXCEPT ![c] = savedData]
    /\ ClockCommit(tickCallback(ClockWork, c, savedData.period, d, ph,
                                "SPAWNED", adjustedTime, now))
    /\ UNCHANGED <<now, ran, ranBefore, nodeVars, editVars, regVars, compVars>>

LoadClock(c, savedData) ==
    /\ Clock_constructor(c, savedData)
    /\ last' = Op("loadClock", c, None, NoWire)

\* clock c is saved and clock d is constructed from the saved data
SaveLoadClock(c, d) ==
    /\ state[c] = "SPAWNED"
    /\ Clock_constructor(d, Clock_toJSON(_period[c], _dutycycle[c], _phase[c],
                                         _showLabel[c]))
    /\ last' = Op("saveLoadClock", d, None, NoWire)

\* ----------------------------------------------------------------- Init
Init ==
    /\ mode = "FULL"
    /\ _value = [n \in Nodes |-> False]
    /\ _forceValue = [n \in Nodes |-> None]
    /\ _incomingWire = [i \in InNodes |-> NoWire]
    /\ _outgoingWires = [o \in OutNodes |-> <<>>]
    /\ wires = <<>>
    /\ now = 0
    /\ queue = <<>>
    /\ mouseOver = None
    /\ mouseDownData = None
    /\ wireFrom = None
    /\ lastWritten = [o \in OutNodes |-> False]
    /\ replaced = {}
    /\ last = Op("init", None, None, NoWire)
    /\ handed = NoHand
    /\ calls = <<>>
    /\ recalcs = ZeroCount
    /\ changes = ZeroCount
    /\ constructed = 0
    /\ _id = [n \in NodeObjs |-> NoId]
    /\ _isAlive = [n \in NodeObjs |-> FALSE]
    /\ nodeList = [k \in Slots |-> NoNode]
    /\ nextNodeID = 0
    /\ destroyed = {}
    /\ ClockInit
    /\ ShiftInit
    /\ QuadInit
    /\ MuxInit
    /\ ByteInit
    /\ BcdInit
    /\ CursorInit
    /\ MoveInit

\* ------------------------------------------- CursorMovementManager, Node
\* NodeBase.isOver, the pointer being at p (a node's waypoint or the
\* background); inc is _incomingWire at the time of the test
isOver(inc, n, p) ==
    /\ ModeAtLeast(mode, "CONNECT")
    /\ acceptsMoreConnections(inc, n)
    /\ p = n

\* updateMouseOver's findMouseOver: the current component if the pointer is
\* still over it, else the node the pointer is over, else null
findMouseOver(inc, cur, p) ==
    IF cur # None /\ isOver(inc, cur, p) THEN cur
    ELSE IF \E n \in Nodes : isOver(inc, n, p)
         THEN CHOOSE n \in Nodes : isOver(inc, n, p)
         ELSE None

GraphUnchanged ==
    /\ UNCHANGED <<_value, _forceValue, _incomingWire, _outgoingWires, wires, now,
                   queue, replaced, lastWritten>>
    /\ calls' = <<>> /\ recalcs' = ZeroCount /\ changes' = ZeroCount
    /\ UNCHANGED <<regVars, clockVars, compVars>>

\* wireMgr.addNode(n), the graph: a wire being added from a node of the
\* other kind is completed by connect; op is the history entry otherwise
addNode(n, op) ==
    /\ handed' = Hand(n, IF isOutput(n) THEN NoWire ELSE _incomingWire[n])
    /\ IF wireFrom # None /\ n # wireFrom /\ isOutput(n) # isOutput(wireFrom)
       THEN IF isOutput(n) THEN connect(n, wireFrom, 0, FALSE)
                           ELSE connect(wireFrom, n, 0, FALSE)
       ELSE GraphUnchanged /\ last' = op

\* wireMgr.addNode(n), the node a wire is being added from afterwards
wireFromAfterAddNode(n) ==
    IF wireFrom = None THEN n
    ELSE IF n = wireFrom THEN wireFrom
    ELSE None

\* _mouseDownTouchStart with the pointer at p (Node.mouseDown does not lock
\* the mouse-over component)
MouseDown(p) ==
    LET over == findMouseOver(_incomingWire, mouseOver, p)
        op == Op("mouseDown", p, None, NoWire)
    IN
    /\ mouseDownData = None
    /\ mouseOver' = over
    /\ IF over # None
       THEN /\ addNode(over, op)
            /\ wireFrom' = wireFromAfterAddNode(over)
            /\ UNCHANGED mouseDownData
       ELSE /\ mouseDownData' = "background"
            /\ GraphUnchanged /\ last' = op /\ handed' = NoHand
            /\ UNCHANGED wireFrom
    /\ UNCHANGED mode

\* _mouseDownTouchStart while a press on the background is in progress
MouseDownIgnored(p) ==
    /\ mouseDownData # None
    /\ GraphUnchanged /\ last' = Op("mouseDownIgnored", p, None, NoWire)
    /\ handed' = NoHand
    /\ UNCHANGED editVars

\* _mouseMoveTouchMove with the pointer at p
MouseMove(p) ==
    /\ mouseOver' = IF mouseDownData # None THEN mouseOver
                    ELSE findMouseOver(_incomingWire, mouseOver, p)
    /\ GraphUnchanged /\ last' = Op("mouseMove", p, None, NoWire)
    /\ handed' = NoHand
    /\ UNCHANGED <<mode, mouseDownData, wireFrom>>

\* _mouseUpTouchEnd: EditHandlers.mouseUpOn (Node.mouseUp, then
\* wireMgr.tryCancelWire) or mouseUpOnBackground (tryCancelWire)
release(op) ==
    LET mouseUpTarget == IF mouseDownData # None THEN None ELSE mouseOver IN
    /\ IF mouseUpTarget # None
       THEN addNode(mouseUpTarget, op)
       ELSE GraphUnchanged /\ last' = op /\ handed' = NoHand
    /\ wireFrom' = None
    /\ mouseDownData' = None
    /\ UNCHANGED mode

\* the canvas's mouseup listener: _mouseUpTouchEnd, then updateMouseOver
MouseUp(p) ==
    /\ release(Op("mouseUp", p, None, NoWire))
    /\ mouseOver' = findMouseOver(_incomingWire', mouseOver, p)

\* the canvas's touchend listener: _mouseUpTouchEnd, then
\* setCurrentMouseOverComp(null)
TouchEnd ==
    /\ release(Op("touchEnd", None, None, NoWire))
    /\ mouseOver' = None

\* parent.allowsForcedOutputs: the component of o1 allows forced outputs,
\* the component of o2 does not
allowsForcedOutputs(o) == o = "o1"

\* the cycle of mouseDoubleClicked taken in the wrong order
nextForceValue_swapped(fv) ==
    CASE fv = None -> Unknown
      [] fv = Unknown -> False
      [] fv = False -> HighImpedance
      [] fv = HighImpedance -> True
      [] fv = True -> None

\* the switch of NodeOut.mouseDoubleClicked: the forced value after fv
nextForceValue(fv) ==
    CASE fv = None -> Unknown
      [] fv = Unknown -> HighImpedance
      [] fv = HighImpedance -> False
      [] fv = False -> True
      [] fv = True -> None

\* NodeOut.mouseDoubleClicked(e) on output node o (no handler of the base
\* class takes the event); the history keeps the forced value before
MouseDoubleClicked(o, altKey) ==
    LET handled == ModeAtLeast(mode, "FULL") /\ altKey /\ isOutput(o)
                      /\ allowsForcedOutputs(o)
        f1 == IF handled
              THEN [_forceValue EXCEPT ![o] = nextForceValue(_forceValue[o])]
              ELSE _forceValue
        S == IF handled THEN NodeOut_setForceValue(Work, _forceValue, f1, o)
                        ELSE Work
    IN
    /\ Len(S.q) <= MaxQueue
    /\ _forceValue' = f1
    /\ Commit(S)
    /\ last' = Op(IF altKey THEN "altDoubleClick" ELSE "doubleClick", o,
                  _forceValue[o], NoWire)
    /\ UNCHANGED <<_incomingWire, _outgoingWires, wires, now, replaced, lastWritten>>
    /\ handed' = NoHand
    /\ UNCHANGED editVars

\* the editor's mode is changed
SetMode(m) ==
    /\ mode' = m
    /\ GraphUnchanged /\ last' = Op("setMode", None, None, NoWire)
    /\ handed' = NoHand
    /\ UNCHANGED <<mouseOver, mouseDownData, wireFrom>>

\* showForcedWarning without the test of _value against Unknown
showForcedWarning_unknown(n) ==
    /\ ModeAtLeast(mode, "CONNECT")
    /\ ModeAtLeast(mode, "FULL")
    /\ ~isUnknown(value(_value, _forceValue, n))
    /\ _value[n] # value(_value, _forceValue, n)

\* NodeBase.doDraw: showForcedWarning (nothing is drawn below Mode.CONNECT)
showForcedWarning(n) ==
    /\ ModeAtLeast(mode, "CONNECT")
    /\ ModeAtLeast(mode, "FULL")
    /\ ~isUnknown(_value[n])
    /\ ~isUnknown(Visible(n))
    /\ _value[n] # Visible(n)

\* the node / wire graph driven by components and connections, every wire
\* delivering in the same pass
Next ==
    \/ \E val \in LogicValues : SetValue("o1", val)
    \/ \E val \in {False, True} : SetValue("o2", val)
    \/ \E fv \in LogicValues \cup {None} : SetForce("o1", fv)
    \/ \E o \in OutNodes, i \in InNodes, r \in BOOLEAN : Connect(o, i, 0, r)
    \/ \E w \in WireIds : Disconnect(w)

Spec == Init /\ [][Next]_vars

\* one output node driving delayed wires, with the driving loop advancing
\* the Timeline
NextDelay ==
    \/ \E val \in {False, True} : SetValue("o1", val)
    \/ \E fv \in {True, None} : SetForce("o1", fv)
    \/ \E i \in InNodes, d \in Delays : Connect("o1", i, d, FALSE)
    \/ \E w \in WireIds : Disconnect(w)
    \/ \E t \in Times : AdvanceTo(t)

SpecDelay == Init /\ [][NextDelay]_vars

\* the editor: presses, moves and releases of the pointer over the nodes,
\* and the wires made by the wire manager
Pointer == Nodes \cup {"background"}

NextEdit ==
    \/ \E p \in Pointer : MouseDown(p)
    \/ \E p \in Pointer : MouseDownIgnored(p)
    \/ \E p \in Pointer : MouseMove(p)
    \/ \E p \in Pointer : MouseUp(p)
    \/ TouchEnd
    \/ \E m \in {"TRYOUT", "CONNECT"} : SetMode(m)
    \/ \E o \in OutNodes, i \in InNodes : Connect(o, i, 0, FALSE)
    \/ \E w \in WireIds : Disconnect(w)

SpecEdit == Init /\ [][NextEdit]_vars

\* one output node drawn in every mode of the editor
NextDraw ==
    \/ \E val \in LogicValues : SetValue("o1", val)
    \/ \E fv \in LogicValues \cup {None} : SetForce("o1", fv)
    \/ \E m \in {ModeOrder[k] : k \in 1..Len(ModeOrder)} : SetMode(m)

SpecDraw == Init /\ [][NextDraw]_vars

\* double clicks on the output nodes in every mode, while o1's component
\* writes values
NextCycle ==
    \/ \E o \in OutNodes, altKey \in BOOLEAN : MouseDoubleClicked(o, altKey)
    \/ \E m \in {ModeOrder[k] : k \in 1..Len(ModeOrder)} : SetMode(m)
    \/ \E val \in LogicValues : SetValue("o1", val)

SpecCycle == Init /\ [][NextCycle]_vars

\* the node registry with constructions and destructions
NextNodes ==
    \/ NewNode(MaxNodes)
    \/ \E n \in NodeObjs : DestroyNode(n)

SpecNodes == Init /\ [][NextNodes]_vars

\* the node registry with id reassignments as well
NextIds ==
    \/ NewNode(MaxIdNodes)
    \/ \E n \in NodeObjs : DestroyNode(n)
    \/ \E n \in NodeObjs, newID \in 0..MaxId : SetId(n, newID)

SpecIds == Init /\ [][NextIds]_vars

\* one clock constructed with any of these fields at any millisecond, and
\* the Timeline advanced millisecond-wise
FnPeriods == {2, 3, 4}
FnDuties == {0, 25, 50, 99}
FnPhases == {-1, 0, 1, 5}
FnTimes == {Hundredths * k : k \in 1..MaxMs}

NextClockFn ==
    \/ \E period \in FnPeriods, dutycycle \in FnDuties, phase \in FnPhases :
          NewClock("c1", period, dutycycle, phase)
    \/ \E t \in FnTimes : ClockAdvanceTo(t)

SpecClockFn == Init /\ [][NextClockFn]_vars

\* two clocks constructed, destroyed and recomputed at any time (c1 with
\* any of these fields and given another period at any time, c2 with period
\* 1 ms and duty cycle 50), and the Timeline advanced by half milliseconds
\* or more
ClkPeriods == {1, 2}
ClkDuties == {0, 50}
ClockTimes == {t \in 1..MaxTime : t % 50 = 0}

NextClock ==
    \/ \E period \in ClkPeriods, dutycycle \in ClkDuties :
          NewClock("c1", period, dutycycle, 0)
    \/ NewClock("c2", 1, 50, 0)
    \/ \E c \in Clocks : DestroyClock(c)
    \/ \E period \in ClkPeriods : DoSetPeriod("c1", period)
    \/ \E c \in Clocks : DoRecalcValue(c)
    \/ \E t \in ClockTimes : ClockAdvanceTo(t)

SpecClock == Init /\ [][NextClock]_vars

\* a shift buffer loaded with any of these saved data, its input nodes
\* taking every value, and recomputed at any time
ShiftSaved ==
    [state : {NoState}, decodeAs : {None, "octal"}, groupEvery : {NoNumber},
     maxItems : {NoNumber, 1}, trigger : {None, "falling"}]

NextShift ==
    \/ \E savedData \in ShiftSaved : NewShiftBuffer(savedData)
    \/ \E val \in LogicValues : SetShiftInput("Clock", val)
    \/ \E val \in {False, True, Unknown} : SetShiftInput("Clear", val)
    \/ \E val \in TriStates : SetShiftInput("Data", val)
    \/ RecalcShiftBuffer

SpecShift == Init /\ [][NextShift]_vars

\* the quad tri-state buffer with every value on every input
NextQuad ==
    \E i \in 0..4, val \in LogicValues : SetQuadInput(i, val)

SpecQuad == Init /\ [][NextQuad]_vars

\* every multiplexer with every value on every input
NextMux ==
    \/ \E m \in MuxKinds : NewMux(m)
    \/ \E i \in 0..10, val \in LogicValues : SetMuxInput(i, val)
    \/ RecalcMux

SpecMux == Init /\ [][NextMux]_vars

\* an 8-bit input loaded with any of these strings, clicked on any cell,
\* saved and loaded again
ByteVals ==
    {NoVal, <<>>, <<"1">>, <<"Z", "1">>, <<"?", "0", "1">>, <<"x", "1", "0">>,
     <<"1", "0", "?", "Z", "0", "0", "1", "1">>,
     <<"1", "Z", "0", "0", "0", "0", "0", "0", "0">>}

NextByte ==
    \/ \E val \in ByteVals : NewInputByte(val)
    \/ \E i \in 0..7, val \in LogicValues : MouseClickedByte(i, val)
    \/ SaveLoadInputByte

SpecByte == Init /\ [][NextByte]_vars

\* a clock loaded from any of these saved data, running, given another
\* period at any time, and saved and loaded as a second clock
SavePeriods == {2, 3}
SaveTimes == {Hundredths, 3 * Hundredths}
ClockSaved ==
    [period : SavePeriods, dutycycle : {Absent, <<0>>, <<25>>, <<150>>},
     phase : {Absent, <<-1>>, <<5>>}, showLabel : {Absent, <<FALSE>>}]

NextClockSave ==
    \/ \E savedData \in ClockSaved : LoadClock("c1", savedData)
    \/ \E period \in SavePeriods : DoSetPeriod("c1", period)
    \/ \E t \in SaveTimes : ClockAdvanceTo(t)
    \/ SaveLoadClock("c1", "c2")

SpecClockSave == Init /\ [][NextClockSave]_vars

\* a shift buffer loaded with any of these saved data, clocked, given
\* another trigger, decoder and grouping at any time, and saved and loaded
\* again
ShiftSavedAll ==
    [state : {NoState, <<"1", "0", "?">>}, decodeAs : {None, "octal"},
     groupEvery : {NoNumber, 4}, maxItems : {NoNumber, 1},
     trigger : {None, "falling"}]

NextShiftSave ==
    \/ \E savedData \in ShiftSavedAll : NewShiftBuffer(savedData)
    \/ \E val \in {False, True} : SetShiftInput("Clock", val)
    \/ SetShiftInput("Data", True)
    \/ RecalcShiftBuffer
    \/ \E trigger \in EdgeTrigger : DoSetTrigger(trigger)
    \/ \E decodeAs \in Decoders : DoSetDecodeAs(decodeAs)
    \/ \E groupEvery \in {NoNumber, 2} : DoSetGroupEvery(groupEvery)
    \/ SaveLoadShiftBuffer

SpecShiftSave == Init /\ [][NextShiftSave]_vars

\* a shift buffer of which every input change is followed by its recompute
NextShiftStep ==
    \/ \E savedData \in ShiftSaved : NewShiftBuffer(savedData)
    \/ \E val \in {False, True} : ChangeShiftInput("Clock", val)
    \/ \E val \in {False, True} : ChangeShiftInput("Clear", val)
    \/ \E val \in TriStates : ChangeShiftInput("Data", val)

SpecShiftStep == Init /\ [][NextShiftStep]_vars

\* a shift buffer loaded with bits, clocked, cleared and given another
\* decoder at any time
ShiftSavedBits ==
    [state : {NoState, <<"1", "?">>, <<"0", "1", "1">>},
     decodeAs : {None, "octal"}, groupEvery : {NoNumber},
     maxItems : {NoNumber, 1}, trigger : {None}]

NextShiftDecode ==
    \/ \E savedData \in ShiftSavedBits : NewShiftBuffer(savedData)
    \/ \E val \in {False, True} : SetShiftInput("Clock", val)
    \/ \E val \in {False, True} : SetShiftInput("Clear", val)
    \/ \E val \in LogicValues : SetShiftInput("Data", val)
    \/ RecalcShiftBuffer
    \/ \E decodeAs \in Decoders : DoSetDecodeAs(decodeAs)

SpecShiftDecode == Init /\ [][NextShiftDecode]_vars

\* the BCD decoder with every value on every input
NextBcd ==
    \E i \in 0..3, val \in LogicValues : SetBcdInput(i, val)

SpecBcd == Init /\ [][NextBcd]_vars

\* The cursor movement manager, driven by the events of the canvas, of a
\* component button and of its two timeouts. A timeout may fire at any
\* moment from when it is set until clearTimeout is called for it.
NextCursor ==
    \/ \E x \in X, lockMouseOver \in BOOLEAN, shiftKey \in BOOLEAN :
          MouseDownTouchStart(x, lockMouseOver, shiftKey)
    \/ MouseDownTouchStartIgnored
    \/ \E x \in X, far \in BOOLEAN : MouseMoveTouchMove(x, far)
    \/ \E x \in X, kind \in ClickKinds : CanvasMouseUp(x, kind)
    \/ \E kind \in ClickKinds : CanvasTouchEnd(kind)
    \/ \E t \in dragTimeouts : DragTimeout(t)
    \/ \E t \in hoverTimeouts, hideTooltips \in BOOLEAN :
          HoverTimeout(t, hideTooltips)
    \/ \E hasMenu \in BOOLEAN : ContextMenu(hasMenu)
    \/ \E lockMouseOver \in BOOLEAN : ButtonMouseDownTouchStart(lockMouseOver)
    \/ \E comp \in Components : DeleteComponent(comp)

SpecCursor == Init /\ [][NextCursor]_vars

\* the selection: elements are toggled one by one, and by the rectangle a
\* press on the background draws; a press on a component locks
NextSelect ==
    \/ \E comp \in Drawables : ToggleSelect(comp)
    \/ \E x \in X, shiftKey \in BOOLEAN : MouseDownTouchStart(x, TRUE, shiftKey)
    \/ \E x \in X : MouseMoveTouchMove(x, TRUE)
    \/ \E x \in X : CanvasMouseUp(x, "single")
    \/ \E comp \in Components : DeleteComponent(comp)

SpecSelect == Init /\ [][NextSelect]_vars

\* the move manager, called for the drawables of the editor
NextMove ==
    \/ \E comp \in Movables : setDrawableMoving(comp)
    \/ \E comp \in Movables : setDrawableStoppedMoving(comp)

SpecMove == Init /\ [][NextMove]_vars

\* ================================================================ claims
\* wire w is in some output node's list of outgoing wires
InOutgoing(w) ==
    \E o \in OutNodes : \E k \in 1..Len(_outgoingWires[o]) : _outgoingWires[o][k] = w

\* the propageNewValue calls a change of output node o's visible value is
\* to make: one per outgoing wire, in list order, with the new visible
\* value and the Timeline's time
ExpectedCalls(o) ==
    [k \in 1..Len(_outgoingWires[o]) |->
        [wire |-> _outgoingWires[o][k], value |-> Visible(o), ts |-> now]]

\* C1: after any sequence of computed-value writes and forced-value sets and
\* clears, the visible value of an output node is the forced value whenever
\* one is present, and the last written computed value otherwise.
C1_VisibleValue ==
    \A o \in OutNodes :
        Visible(o) = IF _forceValue[o] # None THEN _forceValue[o] ELSE lastWritten[o]

\* a force has just been cleared and the node shows a value written to it
\* that differs from the value it showed while forced
C1_Witness ==
    \E o \in OutNodes :
        /\ last = Op("setForce", o, last.old, NoWire)
        /\ _forceValue[o] = None
        /\ lastWritten[o] = HighImpedance
        /\ last.old = True
        /\ Visible(o) = HighImpedance

\* C2: an input node without an incoming wire shows false, and right after a
\* wire is attached to it it shows the visible value of the wire's start
\* node (the forced value if that node is forced).
C2_InputValue ==
    \A i \in InNodes :
        /\ _incomingWire[i] = NoWire => Visible(i) = False
        /\ (last.op = "connect" /\ last.node = i)
              => /\ _incomingWire[i] # NoWire
                 /\ Visible(i) = Visible(startNode(_incomingWire[i]))

\* a wire has just been attached whose start node is forced to a value other
\* than its computed one, and the input node shows the forced value
C2_Witness ==
    \E i \in InNodes :
        /\ last.op = "connect" /\ last.node = i
        /\ LET o == startNode(_incomingWire[i]) IN
           /\ _forceValue[o] = True
           /\ _value[o] = False
           /\ Visible(i) = True
\* C3 as stated: connecting an output node whose value is true to an input
\* node through a wire of delay 5 at time 100 leaves the input node at its
\* prior value (until the Timeline has been advanced to 105).
C3_Original ==
    \A i \in InNodes :
        (/\ last.op = "connect" /\ last.node = i
         /\ wires[_incomingWire[i]].delay = 5
         /\ now = 100
         /\ Visible(startNode(_incomingWire[i])) = True)
            => Visible(i) = last.old

\* C3, amended: attaching a wire delivers the start node's visible value to
\* the input node at once, whatever the wire's delay; it is a later change
\* of the output node's visible value that a delayed wire defers: the change
\* made at time t leaves the input node as it is and is scheduled for
\* t + delay, and an event is pending only while the Timeline has not been
\* advanced to its time.
C3_DelayedDelivery ==
    /\ \A i \in InNodes :
          (last.op = "connect" /\ last.node = i /\ wires[_incomingWire[i]].delay > 0)
             => Visible(i) = Visible(startNode(_incomingWire[i]))
    /\ \A k \in 1..Len(queue) : queue[k].time > now
    /\ \A k \in 1..Len(calls) :
          LET c == calls[k] IN
          wires[c.wire].delay > 0
             => /\ changes[endNode(c.wire)] = 0
                /\ \E j \in 1..Len(queue) :
                      queue[j] = [time |-> c.ts + wires[c.wire].delay,
                                  wire |-> c.wire, value |-> c.value]
    /\ last.op = "advanceTo"
          => \A i \in InNodes :
                changes[i] > 0 => wires[_incomingWire[i]].delay > 0

\* the connection of the claim: at time 100, through a wire of delay 5, from
\* an output node showing true, and the input node shows true at once
C3_Witness ==
    \E i \in InNodes :
        /\ last.op = "connect" /\ last.node = i
        /\ wires[_incomingWire[i]].delay = 5
        /\ now = 100
        /\ last.old = False
        /\ Visible(i) = True
\* the wires that are in a list of outgoing wires and end at input node i
WiresInto(i) == {w \in WireIds : InOutgoing(w) /\ endNode(w) = i}

C6_Original ==
    last.op = "disconnect"
       => /\ Visible(last.node) = False
          /\ recalcs[last.node] >= 1

\* C6, amended: disconnecting an input node always leaves its visible value
\* false, and marks the owning component as needing recalculation (once)
\* exactly when the node's value before the disconnect was not false.
C6_Disconnect ==
    last.op = "disconnect"
       => /\ _incomingWire[last.node] = NoWire
          /\ Visible(last.node) = False
          /\ recalcs[last.node] = IF last.old # False THEN 1 ELSE 0

\* an input node showing a value other than false has just been disconnected
C6_Witness ==
    /\ last.op = "disconnect"
    /\ last.old = Unknown
    /\ Visible(last.node) = False
    /\ recalcs[last.node] = 1

\* C7: each change of an input node's visible value calls the owning
\* component's setNeedsRecalc exactly once; a write of the value the node
\* already has calls nothing.
C7_RecalcPerChange ==
    \A i \in InNodes : recalcs[i] = changes[i]

\* one advance of the Timeline has changed an input node twice, with two
\* calls of setNeedsRecalc
C7_Witness ==
    \E i \in InNodes : last.op = "advanceTo" /\ changes[i] = 2 /\ recalcs[i] = 2

\* C8: each change of an output node's visible value makes exactly one
\* propageNewValue call per wire in its list of outgoing wires, with the new
\* visible value and the Timeline's time; wires no longer in the list get
\* none, and without a change of the visible value no wire gets anything.
C8_Propagation ==
    IF last.op \in {"setValue", "setForce"}
    THEN calls = IF Visible(last.node) # last.old
                 THEN ExpectedCalls(last.node)
                 ELSE <<>>
    ELSE calls = <<>>

\* an output node with two outgoing wires has changed at time 100
C8_Witness ==
    /\ last.op = "setValue"
    /\ now = 100
    /\ Len(calls) = 2
    /\ calls[1].wire # calls[2].wire
    /\ calls[1].ts = 100 /\ calls[2].ts = 100

\* C9: setting or clearing the forced value of an output node propagates as
\* a change of the computed value does: when the visible value differs
\* before and after, it is delivered once to every outgoing wire (here
\* every wire delivers in the same pass, so each wired input node shows it),
\* and when it is the same nothing is delivered.
C9_ForcePropagation ==
    last.op = "setForce"
       => IF Visible(last.node) # last.old
          THEN /\ Len(calls) = Len(_outgoingWires[last.node])
               /\ \A k \in 1..Len(calls) :
                     /\ calls[k].wire = _outgoingWires[last.node][k]
                     /\ calls[k].value = Visible(last.node)
                     /\ Visible(endNode(calls[k].wire)) = Visible(last.node)
                     /\ changes[endNode(calls[k].wire)] = 1
          ELSE /\ calls = <<>>
               /\ \A i \in InNodes : changes[i] = 0

\* clearing a force has changed the visible value of an output node with
\* two outgoing wires
C9_Witness ==
    /\ last.op = "setForce"
    /\ _forceValue[last.node] = None
    /\ last.old # Visible(last.node)
    /\ Len(calls) = 2
\* C10 as stated: in full mode the forced-value warning of an output node
\* is raised exactly when a forced value is present and differs from the
\* computed value, for every pair of values.
C10_Original ==
    \A o \in OutNodes :
        mode = "FULL"
           => (showForcedWarning(o)
                 <=> (_forceValue[o] # None /\ _forceValue[o] # _value[o]))

\* C10, amended: the forced-value warning of an output node is raised
\* exactly when the mode is FULL, a forced value is present and differs from
\* the computed value, and neither of the two values is Unknown.
C10_ForcedWarning ==
    \A o \in OutNodes :
        showForcedWarning(o)
           <=> /\ mode = "FULL"
               /\ _forceValue[o] # None
               /\ _forceValue[o] # _value[o]
               /\ _forceValue[o] # Unknown
               /\ _value[o] # Unknown

\* in full mode, an output node computing true is forced to HighImpedance and
\* the warning is raised
C10_Witness ==
    /\ mode = "FULL"
    /\ _forceValue["o1"] = HighImpedance
    /\ _value["o1"] = True
    /\ showForcedWarning("o1")

\* C11: forcing an output node and clearing the force again is a round trip
\* on the computed value: a computed value written while the node is forced
\* changes neither the visible value (the forced value) nor anything at the
\* wires and their input nodes; once the force is cleared the node shows the
\* last computed value written, and that value goes to every outgoing wire
\* exactly when it differs from the value shown before.
C11_ForceRoundTrip ==
    \A o \in OutNodes :
        /\ (last.op = "setValue" /\ last.node = o /\ isDefined(_forceValue[o]))
              => /\ Visible(o) = _forceValue[o]
                 /\ last.old = _forceValue[o]
                 /\ _value[o] = lastWritten[o]
                 /\ calls = <<>>
                 /\ recalcs = ZeroCount
                 /\ changes = ZeroCount
        /\ (last.op = "setForce" /\ last.node = o /\ ~isDefined(_forceValue[o]))
              => /\ Visible(o) = lastWritten[o]
                 /\ calls = IF lastWritten[o] # last.old THEN ExpectedCalls(o)
                                                         ELSE <<>>

\* the force (false) of a wired output node has just been cleared and the
\* node shows the computed value Unknown, which went to its wire
C11_Witness ==
    /\ last.op = "setForce"
    /\ last.node = "o1"
    /\ last.old = False
    /\ _forceValue["o1"] = None
    /\ lastWritten["o1"] = Unknown
    /\ Visible("o1") = Unknown
    /\ calls # <<>>
    /\ \A k \in 1..Len(calls) : Visible(endNode(calls[k].wire)) = Unknown

\* the order in which alt-double-clicks take the forced value
CycleOrder == <<None, Unknown, HighImpedance, False, True>>

\* C12: an alt-double-click on an output node whose component allows forced
\* outputs, in full mode, takes the forced value one step along none ->
\* Unknown -> HighImpedance -> false -> true -> none (five clicks come back
\* to none); a double click in a lower mode, without alt, or on a node whose
\* component does not allow forced outputs leaves the forced value as it is.
C12_ForceCycle ==
    last.op \in {"altDoubleClick", "doubleClick"}
       => LET o == last.node IN
          IF last.op = "altDoubleClick" /\ ModeAtLeast(mode, "FULL")
                /\ allowsForcedOutputs(o)
          THEN \E k \in 1..5 : /\ last.old = CycleOrder[k]
                                /\ _forceValue[o] = CycleOrder[(k % 5) + 1]
          ELSE _forceValue[o] = last.old

\* the fifth click of a cycle: the forced value true has gone back to none
C12_Witness ==
    /\ last.op = "altDoubleClick"
    /\ last.old = True
    /\ _forceValue[last.node] = None
    /\ ModeAtLeast(mode, "FULL")

\* C13: after any sequence of node constructions and destructions the node
\* registry holds exactly the live nodes: a node constructed and not
\* destroyed is alive and registered under its id, a destroyed node is not
\* alive (and never again) and is in no slot, and every occupied slot holds
\* a live node whose id is the slot.
C13_Registry ==
    /\ \A n \in NodeObjs :
          n <= constructed
             => IF n \in destroyed
                THEN /\ ~_isAlive[n]
                     /\ \A k \in Slots : nodeList[k] # n
                ELSE /\ _isAlive[n]
                     /\ nodeList[_id[n]] = n
    /\ \A k \in Slots :
          nodeList[k] # NoNode
             => /\ nodeList[k] <= constructed
                /\ _isAlive[nodeList[k]]
                /\ _id[nodeList[k]] = k

\* a node has just been destroyed while a node constructed before it and
\* one constructed after it are alive
C13_Witness ==
    /\ last.op = "destroy"
    /\ \E a, b, n \in NodeObjs :
          /\ a < n /\ n < b /\ b <= constructed
          /\ n \in destroyed
          /\ _isAlive[a] /\ _isAlive[b]
          /\ nodeList[_id[a]] = a /\ nodeList[_id[b]] = b

\* C14 as stated: whatever ids are reassigned, no two live nodes have the
\* same id, every live node n is in slot n.id of nodeList, and nextNodeID is
\* greater than every id assigned.
C14_Original ==
    /\ \A n, m \in NodeObjs :
          (_isAlive[n] /\ _isAlive[m] /\ n # m) => _id[n] # _id[m]
    /\ \A n \in NodeObjs : _isAlive[n] => nodeList[_id[n]] = n
    /\ \A n \in NodeObjs : n <= constructed => _id[n] < nextNodeID

\* instant x (in hundredths) is the start of the on-interval or of the
\* off-interval of a clock with these fields
IsBoundary(x, period, dutycycle, phase) ==
    LET m == (x - Hundredths * phase) % (Hundredths * period)
    IN m = 0 \/ m = period * dutycycle

\* C15: for a clock with period p > 0, duty cycle 0 <= d < 100 and any
\* phase, currentClockValue(t) has value true exactly when (t - phase) mod p,
\* taken in [0, p), is less than p * d / 100, and its nextTick is the
\* earliest instant after t that starts the on-interval or the off-interval;
\* period 1000, duty cycle 50, phase 0 and t = 1999 give false and 2000.
C15_ClockValue ==
    /\ currentClockValue(Hundredths * 1999, 1000, 50, 0)
          = [value |-> False, nextTick |-> Hundredths * 2000]
    /\ \A c \in Clocks : \A j \in 1..Len(ticks[c]) :
          LET k == ticks[c][j]
              m == (k.time - Hundredths * _phase[c]) % (Hundredths * _period[c])
          IN /\ (k.value = True) <=> (m < _period[c] * _dutycycle[c])
             /\ k.value \in {True, False}
             /\ k.nextTick > k.time
             /\ IsBoundary(k.nextTick, _period[c], _dutycycle[c], _phase[c])
             /\ \A x \in (k.time + 1)..(k.nextTick - 1) :
                   ~IsBoundary(x, _period[c], _dutycycle[c], _phase[c])

\* the value was computed for a time before the phase (a negative time over
\* the period) of a clock whose on-interval is not a whole number of
\* milliseconds, and it is true
C15_Witness ==
    \E j \in 1..Len(ticks["c1"]) :
        /\ ticks["c1"][j].time < Hundredths * _phase["c1"]
        /\ (_period["c1"] * _dutycycle["c1"]) % Hundredths # 0
        /\ ticks["c1"][j].value = True

\* the pending Timeline events of clock c
Pending(c) == {k \in 1..Len(queue) : queue[k].clock = c}

\* C16: each clock has at most one pending Timeline event of its own: none
\* before it is constructed, exactly one from its construction on while it
\* is not dead (a tick callback consumes one and schedules one; a recompute
\* and a period change schedule none), and at most one once it is dead.
C16_OnePending ==
    \A c \in Clocks :
        /\ state[c] = "NONE" => Pending(c) = {}
        /\ state[c] = "SPAWNED" => Cardinality(Pending(c)) = 1
        /\ state[c] = "DEAD" => Cardinality(Pending(c)) <= 1

\* the period of c1 has just been changed after c1 and c2 have ticked in
\* the same advanceTo, and each still has its one pending event
C16_Witness ==
    /\ last = Op("doSetPeriod", "c1", None, NoWire)
    /\ Len(ran) = 2
    /\ state["c1"] = "SPAWNED" /\ state["c2"] = "SPAWNED"
    /\ Cardinality(Pending("c1")) = 1 /\ Cardinality(Pending("c2")) = 1

\* C17 as stated: a tick callback run for a clock whose state is DEAD
\* schedules no further event and leaves the clock's value as it was.
C17_Original ==
    last.op = "advanceTo"
       => \A j \in 1..Len(ran) :
             LET c == ran[j].clock IN
             state[c] = "DEAD"
                => /\ Pending(c) = {}
                   /\ Len(ticks[c]) = 2 => ticks[c][2].value = ticks[c][1].value

\* C18: a clock does not drift: with its fields unchanged, a tick callback
\* takes the value from the time its event was scheduled for, whenever it
\* runs, that time is the nextTick of the callback before and the first
\* phase boundary after that callback's time, and with a duty cycle above 0
\* the value is the opposite of the value before.
C18_NoDrift ==
    \A c \in Clocks :
        Len(ticks[c]) = 2
           => LET a == ticks[c][1]
                  b == ticks[c][2]
                  m == (b.time - Hundredths * _phase[c]) % (Hundredths * _period[c])
              IN /\ b.time = a.nextTick
                 /\ b.at >= b.time
                 /\ IsBoundary(b.time, _period[c], _dutycycle[c], _phase[c])
                 /\ \A x \in (a.time + 1)..(b.time - 1) :
                       ~IsBoundary(x, _period[c], _dutycycle[c], _phase[c])
                 /\ (b.value = True) <=> (m < _period[c] * _dutycycle[c])
                 /\ b.nextTick > b.time
                 /\ IsBoundary(b.nextTick, _period[c], _dutycycle[c], _phase[c])
                 /\ _dutycycle[c] > 0 => b.value # a.value
                 /\ state[c] = "SPAWNED" => clockValue[c] = b.value

\* a tick of c1 (duty cycle 50) has run more than a period after the time
\* it was scheduled for, when the clock's value at the time of the run
\* differs from the value at the scheduled time
C18_Witness ==
    /\ Len(ticks["c1"]) = 2
    /\ _dutycycle["c1"] = 50
    /\ ticks["c1"][2].at > ticks["c1"][2].time + Hundredths * _period["c1"]
    /\ currentClockValue(ticks["c1"][2].at, _period["c1"], _dutycycle["c1"],
                         _phase["c1"]).value # ticks["c1"][2].value

\* event a is executed before event b in the Timeline's order
Before(a, b) == a.time < b.time \/ (a.time = b.time /\ a.seq < b.seq)

C20_NoSameCallTick ==
    last.op = "advanceTo"
       => /\ \A j, k \in 1..Len(ran) : j # k => ran[j].clock # ran[k].clock
          /\ \A j \in 1..Len(ran) :
                LET c == ran[j].clock IN
                /\ ran[j].time <= now
                /\ state[c] = "SPAWNED"
                      => \E k \in Pending(c) :
                            /\ queue[k].seq > ran[j].seq
                            /\ queue[k].time = ticks[c][Len(ticks[c])].nextTick

\* an advanceTo has run a tick of c2 and the tick it scheduled is pending
\* with a time that is not later than now
C20_Witness ==
    /\ last.op = "advanceTo"
    /\ \E j \in 1..Len(ran) : ran[j].clock = "c2"
    /\ \E k \in Pending("c2") : queue[k].time <= now

\* C21: a clock never schedules in the past: every time a clock's constructor
\* or tick callback passes to scheduleAt is not earlier than the instant the
\* Timeline was last advanced to before the call, also when advanceTo jumps
\* over more than an on- or off-duration of the clock.
\* (The events of the queue numbered from nextSeq on are the ones the step
\* has scheduled.)
C21_Original ==
    [][\A k \in 1..Len(queue') :
          queue'[k].seq >= nextSeq => queue'[k].time >= now]_vars

\* C22: with Clear not true, a recompute of the shift buffer shifts the Data
\* bit in exactly when the clock value sampled by the previous recompute and
\* the current clock value are both true or false and differ in the direction
\* of the trigger (rising: false then true, falling: true then false);
\* otherwise the value stays what it was. (The bits held after a shift are
\* the Data bit followed by the bits held before, the oldest ones dropped
\* when the groups exceed maxItems.)
C22_EdgeShift ==
    [][(last'.op = "recalcShiftBuffer" /\ sbInputs.Clear # True) =>
          LET prev == _lastClock
              cur == sbInputs.Clock
              edge == /\ prev \in {False, True}
                      /\ cur \in {False, True}
                      /\ \/ _trigger = "rising" /\ prev = False /\ cur = True
                         \/ _trigger = "falling" /\ prev = True /\ cur = False
              old == allBitsOf(sbValue)
              new == allBitsOf(sbValue')
          IN IF edge
             THEN /\ new # <<>>
                  /\ Head(new) = sbInputs.Data
                  /\ Tail(new) = SubSeq(old, 1, Len(new) - 1)
             ELSE sbValue' = sbValue]_vars

\* a recompute has shifted a bit in on a falling edge, and two bits or more
\* are held
C22_Witness ==
    /\ last.op = "recalcShiftBuffer"
    /\ last.old = "shift"
    /\ _trigger = "falling"
    /\ _lastClock = False
    /\ Len(allBitsOf(sbValue)) >= 2

\* C23: whenever Clear is true, a recompute of the shift buffer returns the
\* empty state (no incoming bits, no decoded groups) whatever the clock and
\* data inputs are, also when the clock makes a triggering edge.
C23_ClearPriority ==
    (last.op = "recalcShiftBuffer" /\ sbInputs.Clear = True) =>
        sbValue = EmptyState

\* a recompute with Clear true while the clock has made a triggering edge
\* since the last sample and Data is true
C23_Witness ==
    /\ last.op = "recalcShiftBuffer"
    /\ sbInputs.Clear = True
    /\ sbInputs.Data = True
    /\ isClockTrigger(_trigger, _lastClock, sbInputs.Clock)
    /\ sbValue = EmptyState

\* C24: the quad tri-state buffer computes, for every combination of
\* four-valued inputs: four Unknown when Enable is Unknown or HighImpedance,
\* four HighImpedance when Enable is false, and output i equal to input i as
\* it is (HighImpedance and Unknown kept) when Enable is true; output node i
\* is given element i of the computed array.
C24_QuadTriState ==
    last.op = "setQuadInput" =>
        LET enable == qtInputs[4] IN
        /\ enable \in {Unknown, HighImpedance} =>
              \A i \in 0..3 : qtValue[i + 1] = Unknown
        /\ enable = False => \A i \in 0..3 : qtValue[i + 1] = HighImpedance
        /\ enable = True => \A i \in 0..3 : qtValue[i + 1] = qtInputs[i]
        /\ \A i \in 0..3 : qtOutputs[i] = qtValue[i + 1]

\* the enabled buffer passes HighImpedance, Unknown, true and false on, each
\* to the output of its index
C24_Witness ==
    /\ last.op = "setQuadInput"
    /\ qtInputs[4] = True
    /\ qtInputs[0] = HighImpedance /\ qtInputs[1] = Unknown
    /\ qtInputs[2] = True /\ qtInputs[3] = False
    /\ qtOutputs[0] = HighImpedance /\ qtOutputs[1] = Unknown
    /\ qtOutputs[2] = True /\ qtOutputs[3] = False

\* C25: a multiplexer never computes HighImpedance: every element returned
\* by Mux.doRecalcValue is true, false or Unknown, a selected data input that
\* is HighImpedance being treated as Unknown.
C25_Original ==
    \A k \in 1..Len(muxValue) : muxValue[k] \in {True, False, Unknown}

\* the number the selectors of the multiplexer encode, selector 0 the least
\* significant (the selectors are the input nodes after the data inputs)
Selector(k) == muxInputs[numFrom(muxKind) + k]
SelectorBit(k) ==
    IF k < numSel(muxKind) /\ Selector(k) = True
    THEN (CASE k = 0 -> 1 [] k = 1 -> 2 [] k = 2 -> 4)
    ELSE 0
Selected == SelectorBit(0) + SelectorBit(1) + SelectorBit(2)

\* C26: for every multiplexer, when all selectors are true or false and
\* encode the number s, output Z_i has the value of data input i of group s,
\* for every i; when a selector is Unknown or HighImpedance every output is
\* Unknown. The value is that function of the current input values in every
\* state, so a recompute with unchanged inputs returns an equal array.
C26_MuxSelect ==
    LET m == muxKind
        definite == \A k \in 0..(numSel(m) - 1) : Selector(k) \in {False, True}
    IN /\ Len(muxValue) = numTo(m)
       /\ \A i \in 0..(numTo(m) - 1) :
             /\ muxValue[i + 1] = IF definite
                                  THEN muxInputs[Selected * numTo(m) + i]
                                  ELSE Unknown
             /\ muxOutputs[i] = muxValue[i + 1]

\* the 8-to-2 multiplexer recomputed with its inputs unchanged while its
\* selectors encode 2 and data input 1 of group 2 is true
C26_Witness ==
    /\ last.op = "recalcMux"
    /\ muxKind = "8to2"
    /\ Selector(0) = False /\ Selector(1) = True
    /\ muxInputs[5] = True
    /\ muxOutputs[1] = True
    /\ muxOutputs[0] = False

\* the indices of an array, as a set
Range(seq) == {seq[k] : k \in 1..Len(seq)}
TwoToThe(n) == CASE n = 0 -> 1 [] n = 1 -> 2 [] n = 2 -> 4 [] n = 3 -> 8

\* C27: the recompute of a multiplexer is total for the six variants: the
\* number of data groups is 2^numSel, the indices of the data groups and of
\* the selectors are disjoint and are together exactly 0..NumInputs-1, the
\* output indices are exactly 0..NumOutputs-1, and no recompute throws.
C27_MuxTotal ==
    /\ \A m \in MuxKinds :
          LET I == Mux_INPUT(m).I
              S == Mux_INPUT(m).S
              data == UNION {Range(I[g]) : g \in 1..Len(I)}
          IN /\ Len(I) = TwoToThe(numSel(m))
             /\ \A g \in 1..Len(I) : Len(I[g]) = numTo(m)
             /\ \A g, h \in 1..Len(I) : g # h => Range(I[g]) \cap Range(I[h]) = {}
             /\ Cardinality(Range(S)) = numSel(m)
             /\ data \cap Range(S) = {}
             /\ data \cup Range(S) = 0..(NumInputs(m) - 1)
             /\ Range(Mux_OUTPUT(m).Z) = 0..(NumOutputs(m) - 1)
             /\ Len(Mux_OUTPUT(m).Z) = NumOutputs(m)
    /\ muxValue # Throws
    /\ DOMAIN muxInputs = 0..(NumInputs(muxKind) - 1)
    /\ DOMAIN muxOutputs = 0..(NumOutputs(muxKind) - 1)

\* the 8-to-1 multiplexer with every selector true selects its last data
\* input
C27_Witness ==
    /\ muxKind = "8to1"
    /\ last.op = "setMuxInput"
    /\ \A k \in 0..2 : Selector(k) = True
    /\ muxInputs[7] = HighImpedance
    /\ muxValue = <<HighImpedance>>

\* C28: saving an 8-bit input and loading the result gives the same eight
\* values at the same indices, for every array of four-valued values; the
\* array of eight false is saved as an absent val and an absent val loads as
\* eight false; a val shorter than 8 characters loads with its last
\* character at index 0 and the positions it does not reach false.
C28_ByteRoundTrip ==
    /\ last.op = "saveLoadInputByte" =>
          /\ ibValue = ibSaved.from
          /\ (ibSaved.val = NoVal) <=> (\A k \in 1..8 : ibSaved.from[k] = False)
          /\ ibSaved.val # NoVal => Len(ibSaved.val) = 8
    /\ (last.op = "newInputByte" /\ ibSaved.val = NoVal) =>
          \A k \in 1..8 : ibValue[k] = False
    /\ (last.op = "newInputByte" /\ ibSaved.val # NoVal /\ Len(ibSaved.val) < 8) =>
          \A i \in 0..7 :
             ibValue[i + 1] =
                IF i < Len(ibSaved.val)
                THEN toLogicValueFromChar(ibSaved.val[Len(ibSaved.val) - i])
                ELSE False

\* an array that holds the four values, and is not its own mirror image, has
\* been saved and loaded
C28_Witness ==
    /\ last.op = "saveLoadInputByte"
    /\ ibSaved.from = <<True, HighImpedance, Unknown, False, False, True, True, Unknown>>
    /\ ibSaved.val = <<"?", "1", "1", "0", "0", "?", "Z", "1">>
    /\ ibValue = ibSaved.from

\* C29: saving a shift buffer and constructing a new one from the saved data
\* gives a component with the same state (the same incoming bits in the same
\* order, the same decoded groups) and the same persisted configuration:
\* decodeAs, trigger, maxItems and groupEvery.
C29_Original ==
    last.op = "saveLoadShiftBuffer" =>
        Fields(sbValue, _decodeAs, _groupEvery, _maxItems, _trigger) = sbOriginal

\* the times at which the values of two clocks are compared
CheckTimes == {25 * k : k \in 0..(4 * MaxMs)}

\* C30: a clock loaded from saved data without dutycycle, phase or showLabel
\* has 50, 0 and true for them; and a clock loaded from what another clock
\* saves computes the same value and the same nextTick as that clock at
\* every time, also when the period of that clock was changed while it ran.
C30_ClockRoundTrip ==
    /\ \A c \in Clocks :
          state[c] # "NONE" =>
             /\ clockSaved[c].dutycycle = Absent => _dutycycle[c] = 50
             /\ clockSaved[c].phase = Absent => _phase[c] = 0
             /\ clockSaved[c].showLabel = Absent => _showLabel[c] = TRUE
    /\ last.op = "saveLoadClock" =>
          /\ _showLabel["c2"] = _showLabel["c1"]
          /\ \A t \in CheckTimes :
                currentClockValue(t, _period["c2"], _dutycycle["c2"], _phase["c2"])
                = currentClockValue(t, _period["c1"], _dutycycle["c1"], _phase["c1"])

\* a clock loaded with phase 5 and period 3, given period 2 after it has
\* ticked, is saved and loaded: the phase 2 it has becomes 0
C30_Witness ==
    /\ last.op = "saveLoadClock"
    /\ now > 0
    /\ clockSaved["c1"].period = 3
    /\ _period["c1"] = 2
    /\ _phase["c1"] = 2
    /\ _phase["c2"] = 0
    /\ _showLabel["c2"] = FALSE

\* C31: with Clear not true, a recompute shifts a bit in only if the clock
\* input made the transition of the trigger since the previous recompute; a
\* recompute at the release of Clear with the clock steady shifts nothing.
C31_Original ==
    [][(last'.op = "changeShiftInput" /\ last'.old = "shift") =>
          \/ /\ _trigger = "rising"
             /\ sbInputs.Clock = False /\ sbInputs'.Clock = True
          \/ /\ _trigger = "falling"
             /\ sbInputs.Clock = True /\ sbInputs'.Clock = False]_vars

\* every bit is true or false
Definite(bits) == \A k \in 1..Len(bits) : bits[k] \in {False, True}

\* C32: in every state of the shift buffer the incoming bits are fewer than
\* decodeWidth, the decoded groups are at most maxItems (maxDisplayWidth of
\* the decoder when maxItems is unset), every group holds decodeWidth bits
\* and is decoded as the number they encode, first bit most significant, or
\* as Unknown when a bit is not true or false; and a shift that completes a
\* group puts the new bit first in it.
C32_ShiftState ==
    LET w == decodeWidth(_decodeAs)
        max == IF _maxItems = NoNumber THEN maxDisplayWidth(_decodeAs)
               ELSE _maxItems
    IN /\ Len(sbValue.incoming) < w
       /\ Len(sbValue.decoded) <= max
       /\ \A g \in 1..Len(sbValue.decoded) :
             LET group == sbValue.decoded[g] IN
             /\ Len(group.bits) = w
             /\ group.str = IF Definite(group.bits)
                            THEN ToString(binaryValue(group.bits))
                            ELSE Unknown
       /\ (last.op = "recalcShiftBuffer" /\ last.old = "shift"
            /\ sbValue.incoming = <<>>) =>
             /\ sbValue.decoded # <<>>
             /\ Head(sbValue.decoded[1].bits) = sbInputs.Data

\* the shift of a HighImpedance bit has completed a group of three bits,
\* decoded as Unknown
C32_Witness ==
    /\ last.op = "recalcShiftBuffer" /\ last.old = "shift"
    /\ _decodeAs = "octal"
    /\ sbInputs.Data = HighImpedance
    /\ Len(sbValue.decoded) = 1
    /\ sbValue.decoded[1].bits = <<HighImpedance, True, False>>
    /\ sbValue.decoded[1].str = Unknown

\* the number a definite 4-bit input encodes, input 0 the least significant
BcdNumber ==
    (IF bcdInputs[0] = True THEN 1 ELSE 0) + (IF bcdInputs[1] = True THEN 2 ELSE 0)
    + (IF bcdInputs[2] = True THEN 4 ELSE 0) + (IF bcdInputs[3] = True THEN 8 ELSE 0)
Bit(n, k) == IF (n \div k) % 2 = 1 THEN True ELSE False

\* C33: for every definite input of the BCD decoder encoding v, output Z4 is
\* true exactly when v >= 10 and outputs Z3 Z2 Z1 Z0 are the binary digits
\* of v mod 10, element k of the computed array driving output node 4 - k;
\* when an input is not true or false the five outputs are Unknown.
C33_DecoderBCD ==
    last.op = "setBcdInput" =>
        /\ \A k \in 0..4 : bcdOutputs[4 - k] = bcdValue[k + 1]
        /\ IF \A i \in 0..3 : bcdInputs[i] \in {False, True}
           THEN LET v == BcdNumber IN
                /\ bcdOutputs[4] = (IF v >= 10 THEN True ELSE False)
                /\ bcdOutputs[3] = Bit(v % 10, 8)
                /\ bcdOutputs[2] = Bit(v % 10, 4)
                /\ bcdOutputs[1] = Bit(v % 10, 2)
                /\ bcdOutputs[0] = Bit(v % 10, 1)
           ELSE \A i \in 0..4 : bcdOutputs[i] = Unknown

\* the input encodes 13: the tens output and the outputs of 3 are true
C33_Witness ==
    /\ last.op = "setBcdInput"
    /\ bcdInputs = [i \in 0..3 |-> IF i = 1 THEN False ELSE True]
    /\ bcdOutputs = [i \in 0..4 |-> IF i \in {0, 1, 4} THEN True ELSE False]

ClickedNow ==
    {handlerCalls[k].press :
        k \in {j \in 1..Len(handlerCalls) :
                  handlerCalls[j].h \in {"mouseClickedOn", "mouseDoubleClickedOn"}}}

Invoked(h, d) ==
    Cardinality({k \in 1..Len(handlerCalls) :
                    handlerCalls[k].h = h /\ handlerCalls[k].comp = d})

\* C36: when a press locks on a component, the component and every
\* selected element get exactly one mouseDownOn; no drawable gets more than
\* one mouseDraggedOn in one drag event (a pointer move or the drag
\* timeout); at release no drawable gets more than one mouseUpOn.
C36_Original ==
    /\ (last.op = "mouseDownTouchStart" /\ _currentMouseDownData.mainComp \in Drawables)
          => \A d \in {_currentMouseDownData.mainComp}
                       \cup _currentMouseDownData.selectionComps :
                 Invoked("mouseDownOn", d) = 1
    /\ \A d \in Drawables :
          /\ Invoked("mouseDownOn", d) <= 1
          /\ Invoked("mouseDraggedOn", d) <= 1
          /\ Invoked("mouseUpOn", d) <= 1

\* C37: when the hover timeout fires and invokes mouseHoverOn for a
\* drawable, the drawable is the current mouse-over drawable and no press
\* is in progress (the mouse-down data is null); at most one hover timeout
\* is pending; no tooltip is made for a component whose state is DEAD.
C37_Original ==
    /\ last.op = "hoverTimeout" =>
          \A k \in 1..Len(handlerCalls) :
              /\ handlerCalls[k].comp = _currentMouseOverComp
              /\ _currentMouseDownData = NoData
              /\ (handlerCalls[k].comp \in Components
                    /\ compState[handlerCalls[k].comp] = "DEAD")
                   => _currentMouseOverPopper = None
    /\ Cardinality(hoverTimeouts) <= 1

\* the elements of the editor an EditorSelection is asked about
Elements == AllComponents \cup AllWaypoints

\* C38: finishing the selection rectangle (at the release of a press)
\* leaves isSelected as it is for every component and every waypoint of
\* the editor, and after a release on the background no rectangle is being
\* drawn; toggling an element twice gives the set of selected elements
\* back.
C38_FinishRect ==
    /\ [](\A elem \in Drawables :
            toggle(toggle(previouslySelectedElements, elem), elem)
                = previouslySelectedElements)
    /\ [][last'.op = "mouseUpTouchEnd" =>
            /\ \A elem \in Elements :
                  isSelected(previouslySelectedElements', currentlyDrawnRect', elem)
                      = isSelected(previouslySelectedElements, currentlyDrawnRect, elem)
            /\ (selectionDefined /\ handlerCalls'[1].h = "mouseUpOnBackground")
                  => currentlyDrawnRect' = NoRect]_vars

\* a press on the background was released and the rectangle that was drawn
\* has selected both elements
C38_Witness ==
    /\ last.op = "mouseUpTouchEnd"
    /\ handlerCalls[1].h = "mouseUpOnBackground"
    /\ selectionDefined
    /\ currentlyDrawnRect = NoRect
    /\ previouslySelectedElements = {"a", "b"}

\* some drawable was set moving and has not been stopped since
SomeMoving == \E d \in Movables : lastMove[d] = "moving"

\* C39: areDrawablesMoving() is true exactly when some drawable was set
\* moving and not stopped since; a call of setDrawableMoving or
\* setDrawableStoppedMoving notifies the editor (updateCursor and one
\* redraw reason) once when it changes whether some drawable is moving,
\* and not at all otherwise.
C39_Moving ==
    /\ [](areDrawablesMoving <=> SomeMoving)
    /\ [][last'.op \in {"setDrawableMoving", "setDrawableStoppedMoving"} =>
            moveNotified' = IF SomeMoving # SomeMoving' THEN 1 ELSE 0]_vars

\* a drawable has just been stopped, after another one was, no drawable is
\* moving any more and the editor was notified
C39_Witness ==
    /\ last.op = "setDrawableStoppedMoving"
    /\ moveNotified = 1
    /\ ~areDrawablesMoving
    /\ \E d \in Movables : d # last.old /\ lastMove[d] = "stopped"

====
